---- MODULE Spec2Model ----
(***************************************************************************)
(* Versioned query combinators of lib/ui/src/Chat.tsx: field               *)
(* specifications, the formal argument collector, the query serializer     *)
(* (prepare / serializeField) and the default backfill engine              *)
(* (applyDefaults / applyDefault); the CompletionsResponseBuilder of the   *)
(* same file; ExperimentalToolHandler.handle of                            *)
(* vscode/src/autoedits/prompt/base.ts.                                    *)
(*                                                                         *)
(* Representation.                                                         *)
(*   - A field specification is a record with the fields of the source's   *)
(*     interfaces (kind, name, fields, field, args, version, defaultValue).*)
(*   - A FieldPath (a linked list {field, parent}) is a sequence whose     *)
(*     head is `field` and whose tail is the `parent` chain; the empty     *)
(*     sequence is `undefined`.                                            *)
(*   - A version string "major.minor.patch" is the triple of its numbers;  *)
(*     the empty string is the empty sequence.                             *)
(*   - A JavaScript value of a response is a tagged record: Num, Obj (a    *)
(*     function from property names to values) or Arr (a sequence).        *)
(*   - text: string | null is Str(s) or Null.                              *)
(***************************************************************************)
EXTENDS Integers, Sequences, FiniteSets, TLC

VARIABLES
    query,        \* the top-level fields built so far (the arguments of prepare)
    pc,           \* "build" | "collected" | "prepared" | "applied"
    realVersion,  \* the version passed to the last prepare call
    prepared,     \* the PreparedQuery returned by the last prepare call
    collected,    \* the list returned by the last collectFormalList call
    elems,        \* the number of elements of every array of the response
    received,     \* the response as received, before applyDefaults
    response,     \* the result of applyDefaults: [threw, val]
    calls,        \* the PreparedQuery of the first prepare call per version
    store,        \* the object store of SpecHeap: responses and default values by reference
    builder,      \* the CompletionsResponseBuilder and the calls made on it
    handler       \* the execution of ExperimentalToolHandler.handle

vars == <<query, pc, realVersion, prepared, collected, elems, received, response, calls,
          store, builder, handler>>

-----------------------------------------------------------------------------
(* Bounds *)

MaxNodes == 3           \* nodes of the tree a behaviour of Spec builds
MaxDeepNodes == 4       \* nodes of the tree a behaviour of SpecDeep builds
MaxScenarioNodes == 3   \* nodes of the tree a behaviour of SpecScenario builds
MaxCallNodes == 3       \* nodes of the tree a behaviour of SpecCalls builds
MaxElems == 2           \* elements of an array of a response
MaxArgs == 11           \* arguments of the args node of SpecGensym
MaxHeapNodes == 4       \* nodes of the tree a behaviour of SpecHeap builds
MaxGateNodes == 4       \* nodes of the tree a behaviour of SpecGate builds
MaxUntypedNodes == 4    \* nodes of the tree a behaviour of SpecUntyped builds
MaxLabelNodes == 5      \* nodes of the tree a behaviour of SpecLabel builds
MaxTypedNodes == 4      \* nodes of the tree a behaviour of SpecTyped builds
MaxCompletionCalls == 3 \* calls of nextCompletion on one builder
MaxIterations == 12     \* iterations of the loop of handle that are counted

Names == {"a", "b"}
Labels == {"l"}
GensymNames == {"a", "a1"}
ScenarioNames == {"currentUser", "id", "stats", "count"}

EmptyVersion == <<>>
V000 == <<0, 0, 0>>
V100 == <<1, 0, 0>>
V200 == <<2, 0, 0>>
V1100 == <<1, 10, 0>>
V190 == <<1, 9, 0>>

-----------------------------------------------------------------------------
(* JavaScript values *)

Null == [null |-> TRUE]
Str(s) == [null |-> FALSE, s |-> s]

Undefined == [t |-> "undefined"]
Num(n) == [t |-> "num", v |-> n]
Obj(f) == [t |-> "obj", f |-> f]
EmptyProps == <<>>
\* an array: its elements and its own non-index properties
Arr(e) == [t |-> "arr", e |-> e, f |-> EmptyProps]

\* obj[name]: undefined for a missing property and for a property of a number
Get(obj, name) ==
    IF obj.t \in {"obj", "arr"} /\ name \in DOMAIN obj.f THEN obj.f[name]
    ELSE Undefined

\* obj[name] = v on an object or an array
Put(obj, name, v) ==
    [obj EXCEPT !.f = [k \in (DOMAIN obj.f) \cup {name} |->
                            IF k = name THEN v ELSE obj.f[k]]]

Reverse(s) == [i \in 1..Len(s) |-> s[Len(s) + 1 - i]]

RECURSIVE JoinWith(_, _)
\* Array.prototype.join(sep)
JoinWith(tokens, sep) ==
    IF tokens = <<>> THEN ""
    ELSE IF Len(tokens) = 1 THEN Head(tokens)
    ELSE Head(tokens) \o sep \o JoinWith(Tail(tokens), sep)

\* defective variant: buffer.join() with the default separator
JoinDefaultSeparator(tokens) == JoinWith(tokens, ",")

RECURSIVE Join(_)
\* buffer.join('')
Join(tokens) ==
    IF tokens = <<>> THEN "" ELSE Head(tokens) \o Join(Tail(tokens))

-----------------------------------------------------------------------------
(* Field specification model *)

field(name) == [kind |-> "value", name |-> name]

nested(name, fields) == [kind |-> "object", name |-> name, fields |-> fields]

array(name, fields) == [kind |-> "array", name |-> name, fields |-> fields]

constant(name, value) == [kind |-> "constant", name |-> name, value |-> value]

formalInt(name) == [kind |-> "formal", name |-> name, gqlType |-> "Int!"]
formalNullableString(name) == [kind |-> "formal", name |-> name, gqlType |-> "String"]
formalString(name) == [kind |-> "formal", name |-> name, gqlType |-> "String!"]

args(f, argz) == [kind |-> "args", name |-> f.name, field |-> f, args |-> argz]

labeled(name, f) == [kind |-> "labeled", name |-> name, field |-> f]

versionGte(version, defaultValue, f) ==
    [kind |-> "versionPredicate", name |-> f.name, version |-> version,
     field |-> f, defaultValue |-> defaultValue]

\* defective variant: args accepts a version predicate as well
SomeFieldOrPredicate == {"value", "object", "array", "versionPredicate"}

\* the type unions that restrict what a constructor may wrap
SomeFieldExceptArguments == {"value", "object", "array"}
SomeUnlabeledField == SomeFieldExceptArguments \cup {"args"}
SomeUnversionedField == SomeUnlabeledField \cup {"labeled"}

\* semver.lt on parsed versions
SemverLt(a, b) ==
    \/ a[1] < b[1]
    \/ a[1] = b[1] /\ a[2] < b[2]
    \/ a[1] = b[1] /\ a[2] = b[2] /\ a[3] < b[3]

-----------------------------------------------------------------------------
(* Formal argument collector *)

RECURSIVE collectFormals(_)
RECURSIVE collectFormalList(_)

\* defective variant: the arguments of an args node, unfiltered
OwnFormalsUnfiltered(f) == f.args

\* field.args.filter((arg: SomeArg) => arg.kind === 'formal')
OwnFormals(f) == SelectSeq(f.args, LAMBDA arg : arg.kind = "formal")

collectFormals(f) ==
    CASE f.kind = "args" -> OwnFormals(f) \o collectFormals(f.field)
      [] f.kind \in {"array", "object"} -> collectFormalList(f.fields)
      [] f.kind \in {"labeled", "versionPredicate"} -> collectFormals(f.field)
      [] f.kind = "value" -> <<>>

collectFormalList(fields) ==
    IF Len(fields) = 0 THEN <<>>
    ELSE collectFormals(fields[1]) \o collectFormalList(Tail(fields))

-----------------------------------------------------------------------------
(* Query serializer *)

Symbol(description) == [t |-> "symbol", description |-> description]
StringValue(s) == [t |-> "string", s |-> s]

\* JSON.stringify of a number or of a string without characters to escape
JSONStringify(value) ==
    IF value.t = "num" THEN ToString(value.v) ELSE "\"" \o value.s \o "\""

\* the accumulators serializeField mutates, its return value, whether it threw
\* and the assignments it has made to properties of nodes of the tree
SerializerState(buffer, formals, defaults) ==
    [buffer |-> buffer, formals |-> formals, defaults |-> defaults,
     ret |-> FALSE, threw |-> FALSE, writes |-> <<>>]

Push(s, tokens) == [s EXCEPT !.buffer = @ \o tokens]

\* Gensym unique argument names.
Renaming(arg, formals) == "$" \o arg.name \o ToString(Len(formals))

\* defective variant: arg.name = renaming; formals.push(arg)
RenameInPlace(s, arg, renaming) ==
    [s EXCEPT !.formals = @ \o <<[arg EXCEPT !.name = renaming]>>,
              !.writes = @ \o <<[arg |-> arg, name |-> renaming]>>]

\* formals.push({ ...arg, name: renaming }): a copy is renamed, arg is not assigned to
PushRenamedCopy(s, arg, renaming) ==
    [s EXCEPT !.formals = @ \o <<[arg EXCEPT !.name = renaming]>>]

\* one iteration of the loop over field.args
SerializeArg(s, arg) ==
    LET s1 == Push(s, <<arg.name, ":">>)
        s2 == IF arg.kind = "formal"
              THEN LET renaming == Renaming(arg, s1.formals)
                   IN  Push(PushRenamedCopy(s1, arg, renaming), <<renaming>>)
              ELSE Push(s1, <<IF arg.value.t = "symbol" THEN arg.value.description
                                ELSE JSONStringify(arg.value)>>)
    IN  Push(s2, <<",">>)

RECURSIVE SerializeArgs(_, _)
SerializeArgs(s, argz) ==
    IF argz = <<>> THEN s ELSE SerializeArgs(SerializeArg(s, Head(argz)), Tail(argz))

\* defective variant: the parent is never taken for an args node
ParentKindIgnored(path) == "undefined"

\* path.parent?.field.kind
ParentKind(path) == IF Len(path) > 1 THEN path[2].kind ELSE "undefined"

\* defective variant: an unknown version taken for one older than every version
ExcludedWhenUnknown(version, f) == version = EmptyVersion \/ SemverLt(version, f.version)

\* defective variant: semver.gt in place of semver.lt
ExcludedGt(version, f) == version # EmptyVersion /\ SemverLt(f.version, version)

\* defective variant: semver.lte in place of semver.lt
ExcludedLte(version, f) ==
    version # EmptyVersion /\ (SemverLt(version, f.version) \/ version = f.version)

\* realVersion && semver.lt(realVersion, field.version)
Excluded(version, f) == version # EmptyVersion /\ SemverLt(version, f.version)

\* defective variant: console.assert, which reports and returns normally
ConsoleAssert(s, value) == s

\* assert(value, message) of node:assert: throws unless value is truthy
NodeAssert(s, value) == IF value THEN s ELSE [s EXCEPT !.threw = TRUE]

\* defective variant: the array/object case returns what its last child returned
CloseFieldsLastChild(s) == Push(s, <<"}">>)

\* buffer.push('}'); return true, at the end of the array/object case
CloseFields(s) == [Push(s, <<"}">>) EXCEPT !.ret = TRUE]

RECURSIVE serializeField(_, _, _)
RECURSIVE SerializeChildren(_, _, _, _)

RECURSIVE SerializeChildrenAlwaysComma(_, _, _, _)
\* defective variant: a ',' after every child, whatever serializeField returned
SerializeChildrenAlwaysComma(version, s, children, path) ==
    IF children = <<>> \/ s.threw THEN s
    ELSE LET sub == serializeField(version, s, <<Head(children)>> \o path)
             s1 == IF sub.threw THEN sub ELSE Push(sub, <<",">>)
         IN  SerializeChildrenAlwaysComma(version, s1, Tail(children), path)

\* the loop over field.fields of the array/object case
SerializeChildren(version, s, children, path) ==
    IF children = <<>> \/ s.threw THEN s
    ELSE LET sub == serializeField(version, s, <<Head(children)>> \o path)
             s1 == IF sub.threw THEN sub
                   ELSE IF sub.ret THEN Push(sub, <<",">>) ELSE sub
         IN  SerializeChildren(version, s1, Tail(children), path)

serializeField(version, s, path) ==
    LET f == Head(path) IN
    CASE f.kind = "args" ->
            LET s1 == Push(SerializeArgs(Push(s, <<f.name, "(">>), f.args), <<")">>)
                subExpr == serializeField(version, s1, <<f.field>> \o path)
            IN  IF subExpr.threw THEN subExpr
                ELSE [NodeAssert(subExpr, subExpr.ret) EXCEPT !.ret = TRUE]
      [] f.kind \in {"array", "object"} ->
            LET s1 == IF ParentKind(path) # "args" THEN Push(s, <<f.name>>) ELSE s
                s2 == SerializeChildren(version, Push(s1, <<"{">>), f.fields, path)
            IN  IF s2.threw THEN s2 ELSE CloseFields(s2)
      [] f.kind = "value" ->
            [(IF ParentKind(path) # "args" THEN Push(s, <<f.name>>) ELSE s)
                EXCEPT !.ret = TRUE]
      [] f.kind = "labeled" ->
            LET subExpr == serializeField(version, Push(s, <<f.name, ":">>),
                                          <<f.field>> \o path)
            IN  IF subExpr.threw THEN subExpr
                ELSE [NodeAssert(subExpr, subExpr.ret) EXCEPT !.ret = TRUE]
      [] f.kind = "versionPredicate" ->
            IF Excluded(version, f)
            THEN [s EXCEPT !.defaults = @ \o <<[path |-> path, value |-> f.defaultValue]>>,
                           !.ret = FALSE]
            ELSE serializeField(version, s, <<f.field>> \o path)
      [] OTHER -> [s EXCEPT !.threw = TRUE]

RECURSIVE SerializeTopLevelUntilExcluded(_, _, _)
\* defective variant: the loop ends at the first field that realized nothing
SerializeTopLevelUntilExcluded(version, s, fields) ==
    IF fields = <<>> \/ s.threw THEN s
    ELSE LET sub == serializeField(version, s, <<Head(fields)>>)
         IN  IF ~sub.threw /\ ~sub.ret THEN sub
             ELSE SerializeTopLevelUntilExcluded(version, sub, Tail(fields))

RECURSIVE SerializeTopLevel(_, _, _)
\* the loop of prepare over the top-level fields; the return values are ignored
SerializeTopLevel(version, s, fields) ==
    IF fields = <<>> \/ s.threw THEN s
    ELSE SerializeTopLevel(version, serializeField(version, s, <<Head(fields)>>),
                           Tail(fields))

RECURSIVE Preamble(_)
\* formal.name, ':', formal.gqlType, ',' for every formal
Preamble(formals) ==
    IF formals = <<>> THEN <<>>
    ELSE <<Head(formals).name, ":", Head(formals).gqlType, ",">> \o Preamble(Tail(formals))

RECURSIVE Assigned(_, _)
RECURSIVE AssignedList(_, _)
\* field f after the assignment w.arg.name = w.name
Assigned(f, w) ==
    CASE f.kind = "value" -> f
      [] f.kind \in {"object", "array"} -> [f EXCEPT !.fields = AssignedList(@, w)]
      [] f.kind = "args" ->
            [f EXCEPT !.args = [i \in 1..Len(@) |->
                                   IF @[i] = w.arg THEN [@[i] EXCEPT !.name = w.name]
                                   ELSE @[i]],
                      !.field = Assigned(@, w)]
      [] OTHER -> [f EXCEPT !.field = Assigned(@, w)]

AssignedList(fields, w) == [i \in 1..Len(fields) |-> Assigned(fields[i], w)]

RECURSIVE TreeAfter(_, _)
\* the nodes of the query after the assignments serialization made to them
TreeAfter(fields, writes) ==
    IF writes = <<>> THEN fields
    ELSE TreeAfter(AssignedList(fields, Head(writes)), Tail(writes))

\* defective variant: a formals list that outlives the call
StaleState == SerializerState(<<>>, prepared.formals, <<>>)

\* const buffer = [], formals = [], defaults = [] of prepare
FreshState == SerializerState(<<>>, <<>>, <<>>)

\* the buffer of prepare after the preamble is unshifted and '}' is pushed
PreparedBuffer(version, fields) ==
    LET s == SerializeTopLevel(version, FreshState, fields)
    IN  <<"query", "(">> \o Preamble(s.formals) \o <<")", "{">> \o s.buffer \o <<"}">>

\* defective variant: the degenerate text compared with a text prepare never produces
prepareNeverNull(version, fields) ==
    LET s == SerializeTopLevel(version, FreshState, fields)
        text == Join(PreparedBuffer(version, fields))
    IN  [query |-> fields,
         text |-> IF s.threw THEN Null ELSE IF text = "query{}" THEN Null ELSE Str(text),
         formals |-> s.formals,
         defaults |-> s.defaults,
         threw |-> s.threw]

\* defective variant: every version predicate passes, no default is recorded
prepareUngated(version, fields) ==
    LET s == SerializeTopLevel(EmptyVersion, FreshState, fields)
        text == Join(PreparedBuffer(EmptyVersion, fields))
    IN  [query |-> fields,
         text |-> IF s.threw THEN Null ELSE IF text = "query(){}" THEN Null ELSE Str(text),
         formals |-> s.formals,
         defaults |-> s.defaults,
         threw |-> s.threw]

prepare(version, fields) ==
    LET s == SerializeTopLevel(version, FreshState, fields)
        text == Join(PreparedBuffer(version, fields))
    IN  [query |-> TreeAfter(fields, s.writes),
         text |-> IF s.threw THEN Null ELSE IF text = "query(){}" THEN Null ELSE Str(text),
         formals |-> s.formals,
         defaults |-> s.defaults,
         threw |-> s.threw]

-----------------------------------------------------------------------------
(* Default backfill engine *)

\* the loop pushes field, parent.field, ... and the result is reversed
pathEntriesTopDown(path) == Reverse(path)

RECURSIVE PropertyNames(_, _, _)
\* the loop of pathToPropertyNames: names so far, the labeled flag, steps left
PropertyNames(names, isLabeled, steps) ==
    IF steps = <<>> THEN names
    ELSE LET step == Head(steps) IN
         CASE step.kind = "args" -> PropertyNames(names, isLabeled, Tail(steps))
           [] step.kind \in {"array", "object", "value"} ->
                PropertyNames(IF ~isLabeled THEN Append(names, step.name) ELSE names,
                              FALSE, Tail(steps))
           [] step.kind = "labeled" ->
                PropertyNames(IF ~isLabeled THEN Append(names, step.name) ELSE names,
                              TRUE, Tail(steps))
           [] step.kind = "versionPredicate" ->
                PropertyNames(Append(names, step.name), isLabeled, Tail(steps))

pathToPropertyNames(path) == PropertyNames(<<>>, FALSE, pathEntriesTopDown(path))

RECURSIVE FromEntries(_, _)
\* Object.fromEntries: a later entry replaces an earlier one with the same key
FromEntries(rec, entries) ==
    IF entries = <<>> THEN rec
    ELSE LET e == Head(entries)
         IN  FromEntries([k \in (DOMAIN rec) \cup {e[1]} |->
                              IF k = e[1] THEN e[2] ELSE rec[k]], Tail(entries))

flattenDefaults(defaults) ==
    FromEntries(EmptyProps,
                [i \in 1..Len(defaults) |->
                    <<JoinWith(pathToPropertyNames(defaults[i].path), "."),
                      defaults[i].value>>])

\* _.cloneDeep on values without identity
cloneDeep(value) == value

Outcome(threw, val) == [threw |-> threw, val |-> val]

RECURSIVE Walk(_, _, _)
RECURSIVE WalkEntries(_, _, _)

\* obj = obj[name], the rest of the walk on that value, and the mutation seen from obj
Descend(obj, name, steps, isLabeled) ==
    IF obj.t = "undefined" THEN Outcome(TRUE, obj)
    ELSE LET child == Get(obj, name)
             r == Walk(child, steps, isLabeled)
         IN  Outcome(r.threw, IF child.t \in {"obj", "arr"} THEN Put(obj, name, r.val)
                               ELSE obj)

\* for (const arrayEntry of obj) applyDefault(arrayEntry, remaining)
WalkEntries(done, entries, remaining) ==
    IF entries = <<>> THEN Outcome(FALSE, done)
    ELSE LET r == Walk(Head(entries), remaining, FALSE)
         IN  IF r.threw THEN Outcome(TRUE, done \o <<r.val>> \o Tail(entries))
             ELSE WalkEntries(Append(done, r.val), Tail(entries), remaining)

\* the array case once obj is the array: assert, then every entry, then return
ArrayEntries(obj, remaining) ==
    IF obj.t # "arr" THEN Outcome(TRUE, obj)
    ELSE LET r == WalkEntries(<<>>, obj.e, remaining)
         IN  Outcome(r.threw, [obj EXCEPT !.e = r.val])

\* defective variant: the assert of the value case returns, and the switch
\* falls through to the labeled case
ValueStepFallsThrough(obj, step, rest) == Descend(obj, step.name, rest, TRUE)

\* case 'value': assert(false, ...) does not return normally
ValueStep(obj, step, rest) == Outcome(TRUE, obj)

\* the loop of applyDefault from the value obj, with the labeled flag
Walk(obj, steps, isLabeled) ==
    IF steps = <<>> THEN Outcome(FALSE, obj)
    ELSE LET step == Head(steps)
             rest == Tail(steps) IN
         CASE step.kind = "args" -> Walk(obj, rest, isLabeled)
           [] step.kind = "array" ->
                IF isLabeled THEN ArrayEntries(obj, rest)
                ELSE IF obj.t = "undefined" THEN Outcome(TRUE, obj)
                ELSE LET child == Get(obj, step.name)
                         r == ArrayEntries(child, rest)
                     IN  Outcome(r.threw, IF child.t = "arr" THEN Put(obj, step.name, r.val)
                                           ELSE obj)
           [] step.kind = "object" ->
                IF isLabeled THEN Walk(obj, rest, FALSE)
                ELSE Descend(obj, step.name, rest, FALSE)
           [] step.kind = "value" -> ValueStep(obj, step, rest)
           [] step.kind = "labeled" -> Descend(obj, step.name, rest, TRUE)
           [] step.kind = "versionPredicate" ->
                IF isLabeled \/ obj.t \notin {"obj", "arr"} THEN Outcome(TRUE, obj)
                ELSE Outcome(FALSE, Put(obj, step.name, cloneDeep(step.defaultValue)))
           [] OTHER -> Outcome(TRUE, obj)

applyDefault(xs, steps) == Walk(xs, steps, FALSE)

RECURSIVE applyDefaults(_, _)
applyDefaults(xs, defaults) ==
    IF defaults = <<>> THEN Outcome(FALSE, xs)
    ELSE LET r == applyDefault(xs, pathEntriesTopDown(Head(defaults).path))
         IN  IF r.threw THEN r ELSE applyDefaults(r.val, Tail(defaults))

-----------------------------------------------------------------------------
(* The backfill engine on an object store: the same code on values with    *)
(* identity. A store is a sequence of cells and a reference is the index   *)
(* of a cell. A cell is an object (f: property name -> stored value) or an *)
(* array (e: its elements, f: its own properties); a stored value is a     *)
(* number, undefined or a reference.                                       *)

Ref(a) == [t |-> "ref", a |-> a]
Stored(cells, val) == [cells |-> cells, val |-> val]

\* a new object or array
Alloc(cells, cell) == Stored(Append(cells, cell), Ref(Len(cells) + 1))

RECURSIVE Load(_, _)
RECURSIVE LoadProps(_, _, _, _)
RECURSIVE LoadElems(_, _, _)

\* the objects of a value, as a literal or JSON.parse creates them
Load(cells, value) ==
    CASE value.t = "obj" ->
            LET r == LoadProps(cells, value.f, DOMAIN value.f, EmptyProps)
            IN  Alloc(r.cells, Obj(r.val))
      [] value.t = "arr" ->
            LET r == LoadElems(cells, value.e, <<>>)
            IN  Alloc(r.cells, Arr(r.val))
      [] OTHER -> Stored(cells, value)

LoadProps(cells, f, keys, done) ==
    IF keys = {} THEN Stored(cells, done)
    ELSE LET k == CHOOSE x \in keys : TRUE
             r == Load(cells, f[k])
         IN  IF Len(r.cells) < Len(cells) THEN r   \* never: r is evaluated first
             ELSE LoadProps(r.cells, f, keys \ {k},
                            [x \in (DOMAIN done) \cup {k} |->
                                IF x = k THEN r.val ELSE done[x]])

LoadElems(cells, e, done) ==
    IF e = <<>> THEN Stored(cells, done)
    ELSE LET r == Load(cells, Head(e))
         IN  IF Len(r.cells) < Len(cells) THEN r   \* never: r is evaluated first
             ELSE LoadElems(r.cells, Tail(e), Append(done, r.val))

RECURSIVE Unfold(_, _)
\* the value a stored value stands for
Unfold(cells, val) ==
    IF val.t # "ref" THEN val
    ELSE LET cell == cells[val.a] IN
         IF cell.t = "obj"
         THEN Obj([k \in DOMAIN cell.f |-> Unfold(cells, cell.f[k])])
         ELSE [t |-> "arr",
               e |-> [i \in 1..Len(cell.e) |-> Unfold(cells, cell.e[i])],
               f |-> [k \in DOMAIN cell.f |-> Unfold(cells, cell.f[k])]]

\* defective variant: the default assigned by reference, without a copy
cloneDeepShared(cells, val) == Stored(cells, val)

\* _.cloneDeep(step.defaultValue): a new cell for every cell reachable from val
cloneDeepInStore(cells, val) == Load(cells, Unfold(cells, val))

\* obj[name] where obj is a stored value
GetInStore(cells, obj, name) ==
    IF obj.t = "ref" /\ name \in DOMAIN cells[obj.a].f THEN cells[obj.a].f[name]
    ELSE Undefined

\* obj[name] = v: the cell obj refers to is changed in place
PutInStore(cells, obj, name, v) == [cells EXCEPT ![obj.a] = Put(@, name, v)]

\* Array.isArray(obj)
IsArray(cells, obj) == obj.t = "ref" /\ cells[obj.a].t = "arr"

Raised(cells) == [threw |-> TRUE, cells |-> cells]
Returned(cells) == [threw |-> FALSE, cells |-> cells]

RECURSIVE WalkInStore(_, _, _, _, _)
RECURSIVE WalkEntriesInStore(_, _, _, _, _)

\* for (const arrayEntry of obj) applyDefault(arrayEntry, remaining)
WalkEntriesInStore(cells, dv, arr, i, remaining) ==
    IF i > Len(cells[arr.a].e) THEN Returned(cells)
    ELSE LET r == WalkInStore(cells, dv, cells[arr.a].e[i], remaining, FALSE)
         IN  IF r.threw THEN r ELSE WalkEntriesInStore(r.cells, dv, arr, i + 1, remaining)

\* the array case once obj is the array: assert, then every entry, then return
ArrayEntriesInStore(cells, dv, obj, remaining) ==
    IF ~IsArray(cells, obj) THEN Raised(cells)
    ELSE WalkEntriesInStore(cells, dv, obj, 1, remaining)

\* the loop of applyDefault from the stored value obj, with the labeled flag;
\* dv gives the stored defaultValue of every version predicate of the tree
WalkInStore(cells, dv, obj, steps, isLabeled) ==
    IF steps = <<>> THEN Returned(cells)
    ELSE LET step == Head(steps)
             rest == Tail(steps) IN
         CASE step.kind = "args" -> WalkInStore(cells, dv, obj, rest, isLabeled)
           [] step.kind = "array" ->
                IF isLabeled THEN ArrayEntriesInStore(cells, dv, obj, rest)
                ELSE IF obj.t = "undefined" THEN Raised(cells)
                ELSE ArrayEntriesInStore(cells, dv, GetInStore(cells, obj, step.name), rest)
           [] step.kind = "object" ->
                IF isLabeled THEN WalkInStore(cells, dv, obj, rest, FALSE)
                ELSE IF obj.t = "undefined" THEN Raised(cells)
                ELSE WalkInStore(cells, dv, GetInStore(cells, obj, step.name), rest, FALSE)
           [] step.kind = "value" -> Raised(cells)
           [] step.kind = "labeled" ->
                IF obj.t = "undefined" THEN Raised(cells)
                ELSE WalkInStore(cells, dv, GetInStore(cells, obj, step.name), rest, TRUE)
           [] step.kind = "versionPredicate" ->
                IF isLabeled \/ obj.t # "ref" THEN Raised(cells)
                ELSE LET c == cloneDeepInStore(cells, dv[step])
                     IN  Returned(PutInStore(c.cells, obj, step.name, c.val))
           [] OTHER -> Raised(cells)

applyDefaultInStore(cells, dv, xs, steps) == WalkInStore(cells, dv, xs, steps, FALSE)

RECURSIVE ApplyEach(_, _, _, _)
\* for (const entry of defaults) applyDefault(xs, pathEntriesTopDown(entry.path))
ApplyEach(cells, dv, xs, defaults) ==
    IF defaults = <<>> THEN Returned(cells)
    ELSE LET r == applyDefaultInStore(cells, dv, xs, pathEntriesTopDown(Head(defaults).path))
         IN  IF r.threw THEN r ELSE ApplyEach(r.cells, dv, xs, Tail(defaults))

\* defective variant: the defaults applied to a copy of xs, and the copy returned
applyDefaultsOnCopy(cells, dv, xs, defaults) ==
    LET c == cloneDeepInStore(cells, xs)
        r == ApplyEach(c.cells, dv, c.val, defaults)
    IN  [threw |-> r.threw, cells |-> r.cells, ret |-> IF r.threw THEN Undefined ELSE c.val]

\* applyDefaults(xs, defaults): the loop, then return xs
applyDefaultsInStore(cells, dv, xs, defaults) ==
    LET r == ApplyEach(cells, dv, xs, defaults)
    IN  [threw |-> r.threw, cells |-> r.cells, ret |-> IF r.threw THEN Undefined ELSE xs]

-----------------------------------------------------------------------------
(* The response of the server and the shape the caller expects *)

\* the value a server returns for a scalar field
ServerValue == Num(7)
DefaultScalars == {0, 1}

RECURSIVE Size(_)
RECURSIVE SizeList(_)
\* the number of field nodes of a tree
Size(f) ==
    CASE f.kind = "value" -> 1
      [] f.kind \in {"object", "array"} -> 1 + SizeList(f.fields)
      [] OTHER -> 1 + Size(f.field)
SizeList(fields) == IF fields = <<>> THEN 0 ELSE Size(Head(fields)) + SizeList(Tail(fields))

\* the property names under which the fields of a list appear in a response
Keys(fields) == {fields[i].name : i \in 1..Len(fields)}
FieldOfKey(fields, k) == fields[CHOOSE i \in 1..Len(fields) : fields[i].name = k]

\* realVersion is strictly older than the minimum version of the predicate
Gated(version, f) ==
    /\ f.kind = "versionPredicate"
    /\ version # EmptyVersion
    /\ version[1] * 10000 + version[2] * 100 + version[3]
          < f.version[1] * 10000 + f.version[2] * 100 + f.version[3]

RECURSIVE DefaultOf(_, _)
\* a value of the realized shape of f, every scalar being d
DefaultOf(f, d) ==
    CASE f.kind = "value" -> Num(d)
      [] f.kind = "object" ->
            Obj([k \in Keys(f.fields) |-> DefaultOf(FieldOfKey(f.fields, k), d)])
      [] f.kind = "array" -> Arr(<<>>)
      [] OTHER -> DefaultOf(f.field, d)

RECURSIVE Realized(_, _, _, _)
\* the value of field f in a response of a server of the given version whose
\* arrays have n elements; with backfilled, a gated field holds its default
Realized(f, version, n, backfilled) ==
    LET Props(fields) ==
            [k \in {g.name : g \in {fields[i] : i \in 1..Len(fields)} \ 
                                   {h \in {fields[i] : i \in 1..Len(fields)} :
                                        ~backfilled /\ Gated(version, h)}} |->
                Realized(FieldOfKey(fields, k), version, n, backfilled)]
    IN  CASE f.kind = "value" -> ServerValue
          [] f.kind = "object" -> Obj(Props(f.fields))
          [] f.kind = "array" -> Arr([i \in 1..n |-> Obj(Props(f.fields))])
          [] f.kind = "versionPredicate" ->
                IF Gated(version, f) THEN f.defaultValue
                ELSE Realized(f.field, version, n, backfilled)
          [] OTHER -> Realized(f.field, version, n, backfilled)

\* the response root for the top-level fields
Response(fields, version, n, backfilled) ==
    Realized(nested("data", fields), version, n, backfilled)

-----------------------------------------------------------------------------
(* The caller: builds a tree with the constructors, then collects its      *)
(* formals or prepares it for a version and backfills a response.          *)

PredicateVersions == {V1100, V200}
RealVersions == {EmptyVersion, V190, V1100, V200}
ScenarioPredicateVersions == {V200}
ScenarioRealVersions == {V000, V100, V200}

ArgLists ==
    { <<formalInt("a")>>,
      <<constant("version", Symbol("V1")), formalString("a")>>,
      <<formalNullableString("b"), constant("first", Num(10)), formalInt("a")>> }

NoPrepared == [query |-> <<>>, text |-> Null, formals |-> <<>>, defaults |-> <<>>,
               threw |-> FALSE]
NoResponse == [threw |-> FALSE, val |-> Undefined]
NoStore == [cells |-> <<>>, before |-> <<>>, between |-> <<>>, defaultValue |-> <<>>,
            xs |-> <<>>, returned |-> <<>>, threw |-> <<>>]

\* no builder constructed, no call of handle
NoBuilder == [constructed |-> FALSE]
NoHandler == [pc |-> "idle"]

Init ==
    /\ query = <<>>
    /\ pc = "build"
    /\ realVersion = EmptyVersion
    /\ prepared = NoPrepared
    /\ collected = <<>>
    /\ elems = 0
    /\ received = Undefined
    /\ response = NoResponse
    /\ calls = <<>>
    /\ store = NoStore
    /\ builder = NoBuilder
    /\ handler = NoHandler

Last(fields) == fields[Len(fields)]
Front(fields) == SubSeq(fields, 1, Len(fields) - 1)

Building(max) == pc = "build" /\ SizeList(query) < max
OnlyQuery == UNCHANGED <<builder, handler, pc, realVersion, prepared, collected, elems, received, response,
                         calls, store>>

\* q.string(name), q.number(name), q.boolean(name): a new top-level field
FieldAct(names, max) ==
    /\ Building(max)
    /\ \E name \in names \ Keys(query) :
          query' = Append(query, field(name))
    /\ OnlyQuery

\* nested(name, ...fields) around the last k fields built
NestedAct(names, max) ==
    /\ Building(max)
    /\ \E k \in 0..Len(query) :
          LET kept == SubSeq(query, 1, Len(query) - k)
              inner == SubSeq(query, Len(query) - k + 1, Len(query))
          IN  \E name \in names \ Keys(kept) :
                 query' = Append(kept, nested(name, inner))
    /\ OnlyQuery

\* array(name, ...fields) around the last k fields built
ArrayAct(names, max) ==
    /\ Building(max)
    /\ \E k \in 0..Len(query) :
          LET kept == SubSeq(query, 1, Len(query) - k)
              inner == SubSeq(query, Len(query) - k + 1, Len(query))
          IN  \E name \in names \ Keys(kept) :
                 query' = Append(kept, array(name, inner))
    /\ OnlyQuery

\* args(field, ...argz) around the last field built
ArgsAct(max) ==
    /\ Building(max)
    /\ query # <<>>
    /\ Last(query).kind \in SomeFieldExceptArguments
    /\ \E argz \in ArgLists :
          query' = Append(Front(query), args(Last(query), argz))
    /\ OnlyQuery

\* labeled(name, field) around the last field built
LabeledAct(max) ==
    /\ Building(max)
    /\ query # <<>>
    /\ Last(query).kind \in SomeUnlabeledField
    /\ \E name \in Labels \ Keys(Front(query)) :
          query' = Append(Front(query), labeled(name, Last(query)))
    /\ OnlyQuery

\* versionGte(version, defaultValue, field) around the last field built
VersionGteAct(versions, max) ==
    /\ Building(max)
    /\ query # <<>>
    /\ Last(query).kind \in SomeUnversionedField
    /\ \E version \in versions, d \in DefaultScalars :
          query' = Append(Front(query),
                          versionGte(version, DefaultOf(Last(query), d), Last(query)))
    /\ OnlyQuery

BuildField == FieldAct(Names, MaxNodes)
BuildNested == NestedAct(Names, MaxNodes)
BuildArray == ArrayAct(Names, MaxNodes)
BuildArgs == ArgsAct(MaxNodes)
BuildLabeled == LabeledAct(MaxNodes)
BuildVersionGte == VersionGteAct(PredicateVersions, MaxNodes)

\* collectFormalList(query)
CollectFormals ==
    /\ pc = "build"
    /\ collected' = collectFormalList(query)
    /\ pc' = "collected"
    /\ UNCHANGED <<builder, handler, query, realVersion, prepared, elems, received, response, calls, store>>

PrepareAct(versions) ==
    /\ pc = "build"
    /\ \E version \in versions :
          /\ realVersion' = version
          /\ prepared' = prepare(version, query)
    /\ query' = prepared'.query
    /\ pc' = "prepared"
    /\ UNCHANGED <<builder, handler, collected, elems, received, response, calls, store>>

\* prepare(realVersion, ...query)
Prepare == PrepareAct(RealVersions)

\* applyDefaults(response, prepared.defaults) on the response of the server
ApplyDefaults ==
    /\ pc = "prepared"
    /\ ~prepared.threw
    /\ \E n \in 0..MaxElems :
          /\ elems' = n
          /\ received' = Response(query, realVersion, n, FALSE)
          /\ response' = applyDefaults(received', prepared.defaults)
    /\ pc' = "applied"
    /\ UNCHANGED <<builder, handler, query, realVersion, prepared, collected, calls, store>>

Next ==
    \/ BuildField
    \/ BuildNested
    \/ BuildArray
    \/ BuildArgs
    \/ BuildLabeled
    \/ BuildVersionGte
    \/ CollectFormals
    \/ Prepare
    \/ ApplyDefaults

Spec == Init /\ [][Next]_vars

-----------------------------------------------------------------------------
(* SpecDeep: the same caller with deeper trees *)

DeepField == FieldAct(Names, MaxDeepNodes)
DeepNested == NestedAct(Names, MaxDeepNodes)
DeepArray == ArrayAct(Names, MaxDeepNodes)
DeepArgs == ArgsAct(MaxDeepNodes)
DeepLabeled == LabeledAct(MaxDeepNodes)
DeepVersionGte == VersionGteAct(PredicateVersions, MaxDeepNodes)

NextDeep ==
    \/ DeepField
    \/ DeepNested
    \/ DeepArray
    \/ DeepArgs
    \/ DeepLabeled
    \/ DeepVersionGte
    \/ CollectFormals
    \/ Prepare
    \/ ApplyDefaults

SpecDeep == Init /\ [][NextDeep]_vars

-----------------------------------------------------------------------------
(* SpecScenario: the caller of the concrete scenarios, with their names *)

ScenarioField == FieldAct(ScenarioNames, MaxScenarioNodes)
ScenarioNested == NestedAct(ScenarioNames, MaxScenarioNodes)
ScenarioVersionGte == VersionGteAct(ScenarioPredicateVersions, MaxScenarioNodes)
ScenarioPrepare == PrepareAct(ScenarioRealVersions)

NextScenario ==
    \/ ScenarioField
    \/ ScenarioNested
    \/ ScenarioVersionGte
    \/ ScenarioPrepare

SpecScenario == Init /\ [][NextScenario]_vars

-----------------------------------------------------------------------------
(* SpecCalls: a caller that keeps building trees and calls prepare on each  *)
(* of them, remembers its first call and later repeats it.                 *)

CallField == FieldAct(Names, MaxCallNodes)
CallArgs == ArgsAct(MaxCallNodes)
CallVersionGte == VersionGteAct(PredicateVersions, MaxCallNodes)

\* prepare(version, ...query) on the tree built so far
Call ==
    /\ pc = "build"
    /\ \E version \in RealVersions :
          /\ realVersion' = version
          /\ prepared' = prepare(version, query)
          /\ calls' = IF calls = <<>>
                      THEN <<[version |-> version, result |-> prepared']>>
                      ELSE calls
    /\ query' = prepared'.query
    /\ UNCHANGED <<builder, handler, pc, collected, elems, received, response, store>>

\* prepare with the version and the tree of the first call, again
Recall ==
    /\ pc = "build"
    /\ calls # <<>>
    /\ realVersion' = calls[1].version
    /\ prepared' = prepare(calls[1].version, calls[1].result.query)
    /\ pc' = "recalled"
    /\ UNCHANGED <<builder, handler, query, collected, elems, received, response, calls, store>>

NextCalls ==
    \/ CallField
    \/ CallArgs
    \/ CallVersionGte
    \/ Call
    \/ Recall

SpecCalls == Init /\ [][NextCalls]_vars

-----------------------------------------------------------------------------
(* SpecGensym: a caller of args with a long argument list *)

GensymField == FieldAct({"f"}, MaxNodes)

\* args(field) with no argument yet
GensymArgs ==
    /\ pc = "build"
    /\ query # <<>>
    /\ Last(query).kind \in SomeFieldExceptArguments
    /\ query' = Append(Front(query), args(Last(query), <<>>))
    /\ OnlyQuery

\* args(field, ...argz, formal.int(name))
GensymFormal ==
    /\ pc = "build"
    /\ query # <<>>
    /\ Last(query).kind = "args"
    /\ Len(Last(query).args) < MaxArgs
    /\ \E name \in GensymNames :
          query' = Append(Front(query),
                          args(Last(query).field,
                               Append(Last(query).args, formalInt(name))))
    /\ OnlyQuery

GensymPrepare == PrepareAct({EmptyVersion})

NextGensym ==
    \/ GensymField
    \/ GensymArgs
    \/ GensymFormal
    \/ GensymPrepare

SpecGensym == Init /\ [][NextGensym]_vars

-----------------------------------------------------------------------------
(* SpecGate: a caller of prepare whose trees nest version predicates *)

GateField == FieldAct(Names, MaxGateNodes)
GateNested == NestedAct(Names, MaxGateNodes)
GateArgs == ArgsAct(MaxGateNodes)
GateVersionGte == VersionGteAct(PredicateVersions, MaxGateNodes)

NextGate ==
    \/ GateField
    \/ GateNested
    \/ GateArgs
    \/ GateVersionGte
    \/ Prepare

SpecGate == Init /\ [][NextGate]_vars

-----------------------------------------------------------------------------
(* SpecUntyped: a caller that is not held to the type parameters of args    *)
(* and labeled (JavaScript, or a cast): they wrap any field built so far.  *)

UntypedPredicateVersions == {V200}
UntypedRealVersions == {V190, V200}

UntypedField == FieldAct(Names, MaxUntypedNodes)
UntypedNested == NestedAct(Names, MaxUntypedNodes)
UntypedVersionGte == VersionGteAct(UntypedPredicateVersions, MaxUntypedNodes)
UntypedPrepare == PrepareAct(UntypedRealVersions)

\* args(field, ...argz) around the last field built, whatever its kind
UntypedArgs ==
    /\ Building(MaxUntypedNodes)
    /\ query # <<>>
    /\ \E argz \in ArgLists :
          query' = Append(Front(query), args(Last(query), argz))
    /\ OnlyQuery

\* labeled(name, field) around the last field built, whatever its kind
UntypedLabeled ==
    /\ Building(MaxUntypedNodes)
    /\ query # <<>>
    /\ \E name \in Labels \ Keys(Front(query)) :
          query' = Append(Front(query), labeled(name, Last(query)))
    /\ OnlyQuery

NextUntyped ==
    \/ UntypedField
    \/ UntypedNested
    \/ UntypedVersionGte
    \/ UntypedArgs
    \/ UntypedLabeled
    \/ UntypedPrepare

SpecUntyped == Init /\ [][NextUntyped]_vars

-----------------------------------------------------------------------------
(* SpecHeap: the caller with objects that have identity. The default       *)
(* values of the tree and two responses of the server live in one store,   *)
(* and applyDefaults is called on each response with the same defaults.    *)

RECURSIVE VersionPredicates(_)
\* the version predicate nodes of a list of fields
VersionPredicates(fields) ==
    IF fields = <<>> THEN {}
    ELSE LET f == Head(fields) IN
         (CASE f.kind = "value" -> {}
            [] f.kind \in {"object", "array"} -> VersionPredicates(f.fields)
            [] f.kind = "versionPredicate" -> {f} \cup VersionPredicates(<<f.field>>)
            [] OTHER -> VersionPredicates(<<f.field>>))
         \cup VersionPredicates(Tail(fields))

RECURSIVE LoadDefaults(_, _, _)
\* the defaultValue objects the caller passed to versionGte, one per predicate
LoadDefaults(cells, preds, done) ==
    IF preds = {} THEN Stored(cells, done)
    ELSE LET p == CHOOSE x \in preds : TRUE
             r == Load(cells, p.defaultValue)
         IN  LoadDefaults(r.cells, preds \ {p},
                          [x \in (DOMAIN done) \cup {p} |-> IF x = p THEN r.val ELSE done[x]])

HeapPredicateVersions == {V200}
HeapRealVersions == {V190, V200}
\* the numbers of elements of the arrays of a response: none, or several
HeapElems == {0, 2}

\* applyDefaults(xs, defaults), then applyDefaults(ys, defaults) on a second
\* response with the same content, in one store with the default values of
\* the tree
TwoCalls(fields, value, defaults) ==
    LET dv == LoadDefaults(<<>>, VersionPredicates(fields), <<>>)
        x == Load(dv.cells, value)
        y == Load(x.cells, value)
        first == applyDefaultsInStore(y.cells, dv.val, x.val, defaults)
        second == applyDefaultsInStore(first.cells, dv.val, y.val, defaults)
    IN  [cells |-> second.cells, before |-> y.cells, between |-> first.cells,
         defaultValue |-> dv.val, xs |-> <<x.val, y.val>>,
         returned |-> <<first.ret, second.ret>>,
         threw |-> <<first.threw, second.threw>>]

\* applyDefaults on two responses of the server of realVersion
ApplyDefaultsInStore ==
    /\ pc = "prepared"
    /\ ~prepared.threw
    /\ \E n \in HeapElems :
          \E run \in {TwoCalls(query, Response(query, realVersion, n, FALSE),
                               prepared.defaults)} :
              /\ elems' = n
              /\ received' = Response(query, realVersion, n, FALSE)
              /\ response' = Outcome(run.threw[1], Unfold(run.between, run.xs[1]))
              /\ store' = [run EXCEPT !.between = <<>>]
    /\ pc' = "applied"
    /\ UNCHANGED <<builder, handler, query, realVersion, prepared, collected, calls>>


HeapField == FieldAct(Names, MaxHeapNodes)
HeapNested == NestedAct(Names, MaxHeapNodes)
HeapArray == ArrayAct(Names, MaxHeapNodes)
HeapVersionGte == VersionGteAct(HeapPredicateVersions, MaxHeapNodes)
HeapPrepare == PrepareAct(HeapRealVersions)

NextHeap ==
    \/ HeapField
    \/ HeapNested
    \/ HeapArray
    \/ HeapVersionGte
    \/ HeapPrepare
    \/ ApplyDefaultsInStore

SpecHeap == Init /\ [][NextHeap]_vars

-----------------------------------------------------------------------------
(* SpecTamper: a caller that edits a FieldPath of the defaults prepare      *)
(* returned, putting a Value step before its last step, and then calls     *)
(* applyDefaults.                                                          *)

InsertAt(seq, j, x) == SubSeq(seq, 1, j - 1) \o <<x>> \o SubSeq(seq, j, Len(seq))

\* { field: q.number(name), parent: ... } linked into the path of a setter
Tamper ==
    /\ pc = "prepared"
    /\ \E k \in 1..Len(prepared.defaults) :
          \E j \in 2..(Len(prepared.defaults[k].path) + 1), name \in Names :
              prepared' = [prepared EXCEPT !.defaults[k].path = InsertAt(@, j, field(name))]
    /\ pc' = "tampered"
    /\ UNCHANGED <<builder, handler, query, realVersion, collected, elems, received, response, calls, store>>

\* applyDefaults(response, defaults) with the edited defaults
ApplyTampered ==
    /\ pc = "tampered"
    /\ \E n \in 0..MaxElems :
          /\ elems' = n
          /\ received' = Response(query, realVersion, n, FALSE)
          /\ response' = applyDefaults(received', prepared.defaults)
    /\ pc' = "applied"
    /\ UNCHANGED <<builder, handler, query, realVersion, prepared, collected, calls, store>>

TamperRealVersions == {V190, V1100}

TamperVersionGte == VersionGteAct(PredicateVersions, MaxHeapNodes)
TamperPrepare == PrepareAct(TamperRealVersions)

NextTamper ==
    \/ HeapField
    \/ HeapNested
    \/ HeapArray
    \/ TamperVersionGte
    \/ TamperPrepare
    \/ Tamper
    \/ ApplyTampered

SpecTamper == Init /\ [][NextTamper]_vars

-----------------------------------------------------------------------------
(* SpecLabel: a caller of prepare whose trees hold labeled objects inside  *)
(* and around version predicates.                                          *)

LabelRealVersions == {V190, V1100}

LabelField == FieldAct(Names, MaxLabelNodes)
LabelNested == NestedAct(Names, MaxLabelNodes)
LabelLabeled == LabeledAct(MaxLabelNodes)
LabelVersionGte == VersionGteAct(PredicateVersions, MaxLabelNodes)
LabelPrepare == PrepareAct(LabelRealVersions)

NextLabel ==
    \/ LabelField
    \/ LabelNested
    \/ LabelLabeled
    \/ LabelVersionGte
    \/ LabelPrepare

SpecLabel == Init /\ [][NextLabel]_vars

-----------------------------------------------------------------------------
(* SpecTyped: a caller held to the type parameters of the constructors and *)
(* to nothing else: versionGte<F extends SomeField> wraps any field, a     *)
(* version predicate included.                                             *)

TypedField == FieldAct(Names, MaxTypedNodes)
TypedNested == NestedAct(Names, MaxTypedNodes)
TypedArgs == ArgsAct(MaxTypedNodes)
TypedLabeled == LabeledAct(MaxTypedNodes)

\* versionGte(version, defaultValue, field) around the last field built
TypedVersionGte ==
    /\ Building(MaxTypedNodes)
    /\ query # <<>>
    /\ \E version \in PredicateVersions :
          query' = Append(Front(query),
                          versionGte(version, DefaultOf(Last(query), 0), Last(query)))
    /\ OnlyQuery

NextTyped ==
    \/ TypedField
    \/ TypedNested
    \/ TypedArgs
    \/ TypedLabeled
    \/ TypedVersionGte
    \/ Prepare

SpecTyped == Init /\ [][NextTyped]_vars

-----------------------------------------------------------------------------
(* CompletionsResponseBuilder: the text of a streamed completion *)

QueryVars == <<query, pc, realVersion, prepared, collected, elems, received, response,
               calls, store>>

ApiVersions == 0..3
Chunks == {Undefined, StringValue(""), StringValue("a"), StringValue("b")}

\* value || '' for a string or undefined
OrEmpty(value) == IF value.t = "undefined" THEN "" ELSE value.s

\* defective variant: apiVersion > 2 in place of apiVersion >= 2
nextCompletionAbove2(b, completion, deltaText) ==
    [b EXCEPT !.totalCompletion = IF b.apiVersion > 2 THEN @ \o OrEmpty(deltaText)
                                  ELSE OrEmpty(completion)]

nextCompletion(b, completion, deltaText) ==
    [b EXCEPT !.totalCompletion = IF b.apiVersion >= 2 THEN @ \o OrEmpty(deltaText)
                                  ELSE OrEmpty(completion)]

\* new CompletionsResponseBuilder(apiVersion)
Construct ==
    /\ ~builder.constructed
    /\ \E apiVersion \in ApiVersions :
          builder' = [constructed |-> TRUE, apiVersion |-> apiVersion,
                      totalCompletion |-> "", chunks |-> <<>>, returned |-> ""]
    /\ UNCHANGED <<QueryVars, handler>>

\* builder.nextCompletion(completion, deltaText); chunks keeps the arguments received
NextCompletion ==
    /\ builder.constructed
    /\ Len(builder.chunks) < MaxCompletionCalls
    /\ \E completion \in Chunks, deltaText \in Chunks :
          LET b == nextCompletion(builder, completion, deltaText)
          IN  builder' = [b EXCEPT !.chunks = Append(@, [completion |-> completion,
                                                         deltaText |-> deltaText]),
                                   !.returned = b.totalCompletion]
    /\ UNCHANGED <<QueryVars, handler>>

NextCompletions ==
    \/ Construct
    \/ NextCompletion

SpecCompletions == Init /\ [][NextCompletions]_vars

-----------------------------------------------------------------------------
(* ExperimentalToolHandler.handle: one call, an await at a time. Every     *)
(* awaited operation of the loop body either returns or throws; the        *)
(* signal of the request may be aborted at any time. Nothing in handle     *)
(* adds to toolCalls, which the loop empties at its head.                  *)

maxTurns == 10

Running == {"loop", "computeContext", "buildPrompt", "contextWindow", "chat", "stream"}

\* catch (e) { new Error(...) }: the error is constructed and dropped, and
\* while (true) goes on
Caught(h) == [h EXCEPT !.pc = "loop"]

\* handle(request, delegate) up to the loop: the trimmed input must not be empty
Handle ==
    /\ handler.pc = "idle"
    /\ \E content \in {"", "x"} :
          handler' = IF content = "" THEN [pc |-> "rejected"]
                     ELSE [pc |-> "loop", turns |-> 0, iterations |-> 0, toolCalls |-> 0,
                           subTranscript |-> 1, aborted |-> FALSE, postDone |-> 0]
    /\ UNCHANGED <<QueryVars, builder>>

\* the request is aborted while handle runs
Abort ==
    /\ handler.pc \in Running
    /\ ~handler.aborted
    /\ handler' = [handler EXCEPT !.aborted = TRUE]
    /\ UNCHANGED <<QueryVars, builder>>

\* the head of an iteration up to the first await: toolCalls is emptied and
\* subTranscript validated. iterations counts the iterations begun, up to
\* MaxIterations
Try ==
    /\ handler.pc = "loop"
    /\ handler' = [handler EXCEPT
                      !.toolCalls = 0,
                      !.iterations = IF @ < MaxIterations THEN @ + 1 ELSE @,
                      !.pc = IF handler.subTranscript = 0 THEN "loop" ELSE "computeContext"]
    /\ UNCHANGED <<QueryVars, builder>>

\* await this.computeContext(...), then postError and signal.throwIfAborted()
\* if the result has an error
ComputeContext ==
    /\ handler.pc = "computeContext"
    /\ \E outcome \in {"contextItems", "error", "throws"} :
          handler' = CASE outcome = "contextItems" -> [handler EXCEPT !.pc = "buildPrompt"]
                       [] outcome = "error" ->
                            IF handler.aborted THEN Caught(handler)
                            ELSE [handler EXCEPT !.pc = "buildPrompt"]
                       [] outcome = "throws" -> Caught(handler)
    /\ UNCHANGED <<QueryVars, builder>>

\* an awaited operation of the body returns, or throws into the catch clause
Await(stage, next) ==
    /\ handler.pc = stage
    /\ \E throws \in BOOLEAN :
          handler' = IF throws THEN Caught(handler) ELSE [handler EXCEPT !.pc = next]
    /\ UNCHANGED <<QueryVars, builder>>

\* await this.buildPrompt(...)
BuildPrompt == Await("buildPrompt", "contextWindow")

\* await firstResultFromOperation(ChatBuilder.contextWindowForChat(chatBuilder))
ContextWindow == Await("contextWindow", "chat")

\* await this.chatClient.chat(...)
Chat == Await("chat", "stream")

\* for await (const message of stream): the stream throws, or ends; then
\* with no tool call the loop is left, and with tool calls their results
\* are pushed and turns incremented, the loop being left when
\* turns > maxTurns; delegate.postDone() follows the loop
Stream ==
    /\ handler.pc = "stream"
    /\ \E throws \in BOOLEAN :
          handler' = IF throws THEN Caught(handler)
                     ELSE IF handler.toolCalls = 0
                          THEN [handler EXCEPT !.pc = "done", !.postDone = @ + 1]
                          ELSE IF handler.turns + 1 > maxTurns
                               THEN [handler EXCEPT !.turns = @ + 1, !.pc = "done",
                                                    !.postDone = @ + 1]
                               ELSE [handler EXCEPT !.turns = @ + 1, !.pc = "loop",
                                                    !.subTranscript = @ + 1]
    /\ UNCHANGED <<QueryVars, builder>>

HandleStep ==
    \/ Try
    \/ ComputeContext
    \/ BuildPrompt
    \/ ContextWindow
    \/ Chat
    \/ Stream

NextHandler ==
    \/ Handle
    \/ Abort
    \/ HandleStep

\* a continuation that can run is run
SpecHandler == Init /\ [][NextHandler]_vars /\ WF_vars(HandleStep)

-----------------------------------------------------------------------------
(* Notions the properties are stated with *)

TopDown(path) == [i \in 1..Len(path) |-> path[Len(path) + 1 - i]]

RECURSIVE CoreKind(_)
\* the kind of the value/object/array a chain of wrappers ends in
CoreKind(f) ==
    IF f.kind \in {"value", "object", "array"} THEN f.kind ELSE CoreKind(f.field)

RECURSIVE Location(_, _)
\* Where the field a path leads to lies in a response: one entry for every
\* step that is a child of an object or array (or a top-level field), with
\* the property name of the child and whether its value is an array.
Location(steps, i) ==
    IF i > Len(steps) THEN <<>>
    ELSE IF i = 1 \/ steps[i - 1].kind \in {"object", "array"}
         THEN <<[key |-> steps[i].name, isArray |-> CoreKind(steps[i]) = "array"]>>
                 \o Location(steps, i + 1)
         ELSE Location(steps, i + 1)

\* is the value of some entry before the last one an array
BelowArray(loc) == \E i \in 1..(Len(loc) - 1) : loc[i].isArray

RECURSIVE Written(_, _, _, _)
\* value lies at location loc of val, in each of the n elements of every array
\* on the way
Written(val, loc, value, n) ==
    LET child == Get(val, loc[1].key) IN
    IF Len(loc) = 1 THEN child = value
    ELSE IF loc[1].isArray
         THEN /\ child.t = "arr"
              /\ Len(child.e) = n
              /\ \A i \in 1..Len(child.e) : Written(child.e[i], Tail(loc), value, n)
         ELSE Written(child, Tail(loc), value, n)

RECURSIVE HasPassingStep(_, _)
\* some step of the path other than its leaf is a version predicate
HasPassingStep(path, i) ==
    i <= Len(path) /\ (path[i].kind = "versionPredicate" \/ HasPassingStep(path, i + 1))

Punctuation == {"(", ")", "{", "}", ",", ":"}

RECURSIVE Balanced(_, _)
\* every closing token closes the innermost open one and none stays open
Balanced(tokens, open) ==
    IF tokens = <<>> THEN open = <<>>
    ELSE LET t == Head(tokens) IN
         IF t \in {"(", "{"} THEN Balanced(Tail(tokens), <<t>> \o open)
         ELSE IF t \in {")", "}"}
              THEN /\ open # <<>>
                   /\ Head(open) = (IF t = ")" THEN "(" ELSE "{")
                   /\ Balanced(Tail(tokens), Tail(open))
              ELSE Balanced(Tail(tokens), open)

\* no two tokens next to each other are both names
NamesDelimited(tokens) ==
    \A i \in 1..(Len(tokens) - 1) :
        tokens[i] \in Punctuation \/ tokens[i + 1] \in Punctuation

RECURSIVE Declared(_, _)
\* the formal arguments of the fields on the stack, visiting the tree in
\* pre-order with an explicit stack
Declared(stack, acc) ==
    IF stack = <<>> THEN acc
    ELSE LET f == Head(stack)
             rest == Tail(stack) IN
         CASE f.kind = "args" ->
                Declared(<<f.field>> \o rest,
                         acc \o [i \in 1..Cardinality({j \in 1..Len(f.args) :
                                                         f.args[j].kind = "formal"}) |->
                                   f.args[CHOOSE j \in 1..Len(f.args) :
                                       /\ f.args[j].kind = "formal"
                                       /\ Cardinality({m \in 1..j :
                                              f.args[m].kind = "formal"}) = i]])
           [] f.kind \in {"object", "array"} -> Declared(f.fields \o rest, acc)
           [] f.kind = "value" -> Declared(rest, acc)
           [] OTHER -> Declared(<<f.field>> \o rest, acc)

-----------------------------------------------------------------------------
(* Properties *)

\* C1 (as claimed): shape round-trip. applyDefaults on a response that holds
\* exactly the fields prepare did not exclude returns normally and yields the
\* full shape: every declared field present, an excluded field holding the
\* default of its own predicate, every other field the value it had.
C1_RoundTrip ==
    pc = "applied" =>
        /\ ~response.threw
        /\ response.val = Response(query, realVersion, elems, TRUE)

\* no recorded default has a passing version predicate among the steps of its path
NoPassingStep ==
    \A k \in 1..Len(prepared.defaults) : ~HasPassingStep(prepared.defaults[k].path, 2)

\* C1, where it holds: the round trip for trees in which no excluded predicate
\* lies inside a passing one.
C1_RoundTripWithoutPassingStep ==
    (pc = "applied" /\ NoPassingStep) =>
        /\ ~response.threw
        /\ response.val = Response(query, realVersion, elems, TRUE)

\* C2: the text of a prepared query is null if and only if every top-level
\* field is a version predicate excluded under the version (also when there
\* is no top-level field); otherwise it is a string.
C2_NullTextIffAllExcluded ==
    pc = "prepared" =>
        /\ ~prepared.threw
        /\ (prepared.text = Null) <=>
              (\A i \in 1..Len(query) : Gated(realVersion, query[i]))

C2_Witness ==
    /\ pc = "prepared"
    /\ Len(query) = 1
    /\ query[1].kind = "versionPredicate"
    /\ query[1].field.kind = "object"
    /\ prepared.text = Null
    /\ Len(prepared.defaults) = 1

C4_GensymUnique ==
    pc = "prepared" =>
        \A i, j \in 1..Len(prepared.formals) :
            i # j => prepared.formals[i].name # prepared.formals[j].name

\* C5 (as claimed): array homogeneity. For every recorded default whose field
\* lies below an array, applyDefaults leaves that array with its n elements
\* and writes the default at the same relative location in each of them.
C5_ArrayHomogeneity ==
    pc = "applied" =>
        /\ ~response.threw
        /\ \A k \in 1..Len(prepared.defaults) :
              LET loc == Location(TopDown(prepared.defaults[k].path), 1)
              IN  BelowArray(loc) =>
                     Written(response.val, loc, prepared.defaults[k].value, elems)

\* C5, where it holds: array homogeneity for trees in which no excluded
\* predicate lies inside a passing one.
C5_ArrayHomogeneityWithoutPassingStep ==
    (pc = "applied" /\ NoPassingStep) =>
        /\ ~response.threw
        /\ \A k \in 1..Len(prepared.defaults) :
              LET loc == Location(TopDown(prepared.defaults[k].path), 1)
              IN  BelowArray(loc) =>
                     Written(response.val, loc, prepared.defaults[k].value, elems)

\* C6 (as claimed): scenario 1. prepare('0.0.0', nested('currentUser',
\* q.string('id'))) yields the text 'query(){currentUser{id}}', no formals and
\* no defaults.
C6_Scenario1 ==
    (/\ pc = "prepared"
     /\ realVersion = V000
     /\ query = <<nested("currentUser", <<field("id")>>)>>) =>
        /\ prepared.text = Str("query(){currentUser{id}}")
        /\ prepared.formals = <<>>
        /\ prepared.defaults = <<>>

\* C6 (amended): scenario 1 yields the text 'query(){currentUser{id,}}', the
\* child of the object being followed by a comma, no formals and no defaults.
C6_Scenario1Amended ==
    (/\ pc = "prepared"
     /\ realVersion = V000
     /\ query = <<nested("currentUser", <<field("id")>>)>>) =>
        /\ prepared.text = Str("query(){currentUser{id,}}")
        /\ prepared.formals = <<>>
        /\ prepared.defaults = <<>>

C6_Witness ==
    /\ pc = "prepared"
    /\ realVersion = V000
    /\ query = <<nested("currentUser", <<field("id")>>)>>
    /\ prepared.text # Null

StatsField == versionGte(V200, Obj([count |-> Num(0)]), nested("stats", <<field("count")>>))

\* C7: scenario 2. versionGte('2.0.0', {count: 0}, nested('stats',
\* q.number('count'))) prepared for '1.0.0' has a null text and exactly one
\* default, and its flattened defaults are { stats: { count: 0 } }.
C7_Scenario2 ==
    (/\ pc = "prepared"
     /\ realVersion = V100
     /\ query = <<StatsField>>) =>
        /\ prepared.text = Null
        /\ Len(prepared.defaults) = 1
        /\ flattenDefaults(prepared.defaults) = [stats |-> Obj([count |-> Num(0)])]

C7_Witness ==
    /\ pc = "prepared"
    /\ realVersion = V100
    /\ query = <<StatsField>>
    /\ prepared.defaults # <<>>

\* C8 (as claimed): scenario 3. A version predicate whose minimum version equals the real
\* version is included: no default is recorded for it, and the field of
\* scenario 2 prepared for '2.0.0' yields the text 'query(){stats{count}}'
\* and no defaults.
C8_Scenario3 ==
    pc = "prepared" =>
        /\ \A k \in 1..Len(prepared.defaults) :
              prepared.defaults[k].path[1].version # realVersion
        /\ (realVersion = V200 /\ query = <<StatsField>>) =>
              /\ prepared.text = Str("query(){stats{count}}")
              /\ prepared.defaults = <<>>

\* C8 (amended): a version predicate whose minimum version equals the real
\* version is included, and the field of scenario 2 prepared for '2.0.0'
\* yields the text 'query(){stats{count,}}' and no defaults.
C8_Scenario3Amended ==
    pc = "prepared" =>
        /\ \A k \in 1..Len(prepared.defaults) :
              prepared.defaults[k].path[1].version # realVersion
        /\ (realVersion = V200 /\ query = <<StatsField>>) =>
              /\ prepared.text = Str("query(){stats{count,}}")
              /\ prepared.defaults = <<>>

C8_Witness ==
    /\ pc = "prepared"
    /\ realVersion = V200
    /\ query = <<StatsField>>
    /\ prepared.text # Null
    /\ prepared.defaults = <<>>

\* C9 (as claimed): every text that is not null is a well-formed document:
\* parentheses and braces are balanced and properly nested and no two field
\* names are adjacent tokens.
C9_WellFormed ==
    (pc = "prepared" /\ prepared.text # Null) =>
        /\ Balanced(PreparedBuffer(realVersion, query), <<>>)
        /\ NamesDelimited(PreparedBuffer(realVersion, query))

\* C9, where it holds: the text of a query with at most one top-level field is
\* well-formed.
C9_WellFormedSingleTopLevel ==
    (pc = "prepared" /\ prepared.text # Null /\ Len(query) <= 1) =>
        /\ Balanced(PreparedBuffer(realVersion, query), <<>>)
        /\ NamesDelimited(PreparedBuffer(realVersion, query))

RECURSIVE Preserved(_, _)
\* every key and every array element of `before` is in `after` with the value
\* it had, keys added inside objects apart
Preserved(before, after) ==
    CASE before.t = "obj" ->
            /\ after.t = "obj"
            /\ \A k \in DOMAIN before.f :
                  k \in DOMAIN after.f /\ Preserved(before.f[k], after.f[k])
      [] before.t = "arr" ->
            /\ after.t = "arr"
            /\ Len(after.e) = Len(before.e)
            /\ \A i \in 1..Len(before.e) : Preserved(before.e[i], after.e[i])
      [] OTHER -> after = before

\* C11 (as claimed): applyDefaults only fills gaps. Every key present in the
\* response before the call is present after it with the value it had; a
\* default is written only at a key that was missing.
C11_OnlyFillsGaps ==
    pc = "applied" => Preserved(received, response.val)

\* C11, where it holds: gaps only, for trees in which no excluded predicate
\* lies inside a passing one.
C11_OnlyFillsGapsWithoutPassingStep ==
    (pc = "applied" /\ NoPassingStep) => Preserved(received, response.val)

RECURSIVE InListOrder(_, _, _)
\* the response after the first k setters of the list, one after the other
InListOrder(xs, defaults, k) ==
    IF k = 0 THEN Outcome(FALSE, xs)
    ELSE LET r == InListOrder(xs, defaults, k - 1)
         IN  IF r.threw THEN r
             ELSE applyDefault(r.val, pathEntriesTopDown(defaults[k].path))

\* C12: applyDefaults returns the very object it was given, changed in place:
\* the returned reference is the reference passed, the object it refers to
\* holds the result of applying the setters in list order, and with an empty
\* defaults list no object of the store is changed.
C12_ReturnsRootInPlace ==
    pc = "applied" =>
        /\ store.threw = <<FALSE, FALSE>>
        /\ store.returned = store.xs
        /\ response.val =
              InListOrder(received, prepared.defaults, Len(prepared.defaults)).val
        /\ prepared.defaults = <<>> =>
              /\ store.cells = store.before
              /\ response.val = received

C12_Witness ==
    /\ pc = "applied"
    /\ Len(prepared.defaults) = 2
    /\ store.returned[1] = store.xs[1]
    /\ store.cells # store.before
    /\ response.val # received

\* the stored values a cell holds
ChildrenOf(cell) ==
    {cell.f[k] : k \in DOMAIN cell.f}
        \cup (IF cell.t = "arr" THEN {cell.e[i] : i \in 1..Len(cell.e)} ELSE {})

RECURSIVE Reach(_, _)
\* the cells reachable from a stored value
Reach(cells, val) ==
    IF val.t # "ref" THEN {}
    ELSE {val.a} \cup UNION {Reach(cells, c) : c \in ChildrenOf(cells[val.a])}

\* the places of the cells of S that hold a reference
RefSlots(cells, S) ==
    UNION {{[cell |-> a, key |-> k] : k \in {x \in DOMAIN cells[a].f :
                                                cells[a].f[x].t = "ref"}} : a \in S}
      \cup UNION {{[cell |-> a, index |-> i] :
                     i \in {x \in 1..(IF cells[a].t = "arr" THEN Len(cells[a].e) ELSE 0) :
                               cells[a].e[x].t = "ref"}} : a \in S}

\* the cells reachable from val form a tree: no cell is referred to twice
IsTree(cells, val) ==
    Cardinality(RefSlots(cells, Reach(cells, val))) + 1 = Cardinality(Reach(cells, val))

\* C13: every default written is a fresh deep copy. After applyDefaults on
\* two responses with the same defaults list, no object is shared between a
\* response and the default values of the tree, between the two responses,
\* or between two places of one response (such as two array elements); the
\* default values of the tree are what they were, and both responses hold
\* the same content.
C13_FreshDeepCopies ==
    pc = "applied" =>
        LET first == Reach(store.cells, store.xs[1])
            second == Reach(store.cells, store.xs[2])
            ofTree == UNION {Reach(store.cells, store.defaultValue[p]) :
                                p \in DOMAIN store.defaultValue}
        IN  /\ first \cap second = {}
            /\ first \cap ofTree = {}
            /\ second \cap ofTree = {}
            /\ IsTree(store.cells, store.xs[1])
            /\ IsTree(store.cells, store.xs[2])
            /\ \A p \in DOMAIN store.defaultValue :
                  Unfold(store.cells, store.defaultValue[p]) = p.defaultValue
            /\ Unfold(store.cells, store.xs[1]) = response.val
            /\ Unfold(store.cells, store.xs[2]) = response.val

C13_Witness ==
    /\ pc = "applied"
    /\ elems = 2
    /\ \E k \in 1..Len(prepared.defaults) :
          /\ prepared.defaults[k].value.t \in {"obj", "arr"}
          /\ BelowArray(Location(TopDown(prepared.defaults[k].path), 1))
    /\ Len(store.cells) > Len(store.before)

RECURSIVE Realizes(_, _)
\* the field produces output when it is serialized and serialization returns
Realizes(f, version) ==
    IF f.kind = "versionPredicate"
    THEN ~Gated(version, f) /\ Realizes(f.field, version)
    ELSE TRUE

RECURSIVE WrapsExcluded(_, _)
\* somewhere in the tree of f, an args or labeled node directly wraps a
\* version predicate excluded under the version
WrapsExcluded(f, version) ==
    CASE f.kind = "value" -> FALSE
      [] f.kind \in {"object", "array"} ->
            \E i \in 1..Len(f.fields) : WrapsExcluded(f.fields[i], version)
      [] f.kind \in {"args", "labeled"} ->
            \/ Gated(version, f.field)
            \/ WrapsExcluded(f.field, version)
      [] OTHER -> WrapsExcluded(f.field, version)

RECURSIVE ReachesUnrealized(_, _)
\* serialization of f, once it is reached, comes to an args or labeled node
\* whose wrapped field produces no output
ReachesUnrealized(f, version) ==
    CASE f.kind = "value" -> FALSE
      [] f.kind \in {"object", "array"} ->
            \E i \in 1..Len(f.fields) : ReachesUnrealized(f.fields[i], version)
      [] f.kind \in {"args", "labeled"} ->
            \/ ~Realizes(f.field, version)
            \/ ReachesUnrealized(f.field, version)
      [] OTHER -> ~Gated(version, f) /\ ReachesUnrealized(f.field, version)

RECURSIVE DanglingLabel(_, _, _)
\* from token i on, a ':' outside an argument list has no field after it
DanglingLabel(tokens, i, inArgs) ==
    /\ i <= Len(tokens)
    /\ IF tokens[i] = "(" THEN DanglingLabel(tokens, i + 1, TRUE)
       ELSE IF tokens[i] = ")" THEN DanglingLabel(tokens, i + 1, FALSE)
       ELSE \/ /\ tokens[i] = ":"
               /\ ~inArgs
               /\ (i = Len(tokens) \/ tokens[i + 1] \in {",", "}", ")"})
            \/ DanglingLabel(tokens, i + 1, inArgs)

\* C14 (as claimed): if anywhere in the tree an args or labeled node directly
\* wraps a version predicate excluded under V, prepare(V, ...) throws and
\* returns nothing; a text that is returned has no label without a field.
C14_FailsOnUnrealized ==
    pc = "prepared" =>
        /\ (\E i \in 1..Len(query) : WrapsExcluded(query[i], realVersion)) =>
              (prepared.threw /\ prepared.text = Null)
        /\ ~prepared.threw => ~DanglingLabel(PreparedBuffer(realVersion, query), 1, FALSE)

\* C14 (amended): prepare(V, ...) throws, and returns nothing, exactly when
\* serialization reaches an args or labeled node whose wrapped field
\* produces no output under V; such a node inside an excluded predicate is
\* not reached and raises nothing. A text that is returned has no label
\* without a field.
C14_FailsOnReachedUnrealized ==
    pc = "prepared" =>
        /\ prepared.threw <=>
              (\E i \in 1..Len(query) : ReachesUnrealized(query[i], realVersion))
        /\ prepared.threw => prepared.text = Null
        /\ ~prepared.threw => ~DanglingLabel(PreparedBuffer(realVersion, query), 1, FALSE)

C14_Witness ==
    /\ pc = "prepared"
    /\ prepared.threw
    /\ Len(query) = 1
    /\ query[1].kind = "object"
    /\ \E i \in 1..Len(query[1].fields) :
          /\ query[1].fields[i].kind \in {"args", "labeled"}
          /\ Gated(realVersion, query[1].fields[i].field)

RECURSIVE Outermost(_, _, _)
RECURSIVE OutermostList(_, _, _)
\* the setters of the outermost excluded predicates of f, in pre-order;
\* parents is the path of the parent of f
Outermost(f, parents, version) ==
    CASE f.kind = "value" -> <<>>
      [] f.kind \in {"object", "array"} -> OutermostList(f.fields, <<f>> \o parents, version)
      [] f.kind = "versionPredicate" /\ Gated(version, f) ->
            <<[path |-> <<f>> \o parents, value |-> f.defaultValue]>>
      [] OTHER -> Outermost(f.field, <<f>> \o parents, version)

OutermostList(fields, parents, version) ==
    IF fields = <<>> THEN <<>>
    ELSE Outermost(Head(fields), parents, version)
            \o OutermostList(Tail(fields), parents, version)

RECURSIVE Prune(_, _)
RECURSIVE PruneList(_, _)
\* the list of fields without its excluded predicates, a passing predicate
\* replaced by the field it wraps
PruneList(fields, version) ==
    IF fields = <<>> THEN <<>>
    ELSE (IF Gated(version, Head(fields)) THEN <<>>
          ELSE <<Prune(Head(fields), version)>>) \o PruneList(Tail(fields), version)

Prune(f, version) ==
    CASE f.kind = "value" -> f
      [] f.kind \in {"object", "array"} ->
            [f EXCEPT !.fields = PruneList(f.fields, version)]
      [] f.kind = "versionPredicate" -> Prune(f.field, version)
      [] OTHER -> [f EXCEPT !.field = Prune(f.field, version)]

\* C15: version gating. prepare does not raise; defaults lists exactly the
\* outermost predicates whose minimum version is strictly newer than
\* realVersion, in tree pre-order, one setter each with the path and the
\* defaultValue of the predicate, and nothing for predicates inside an
\* excluded one; the tokens and the formals are those of the tree without
\* the excluded predicates and with every passing predicate replaced by the
\* field it wraps.
C15_VersionGating ==
    pc = "prepared" =>
        /\ ~prepared.threw
        /\ prepared.defaults = OutermostList(query, <<>>, realVersion)
        /\ PreparedBuffer(realVersion, query)
              = PreparedBuffer(realVersion, PruneList(query, realVersion))
        /\ prepared.formals = prepare(realVersion, PruneList(query, realVersion)).formals

C15_Witness ==
    /\ pc = "prepared"
    /\ Len(query) = 1
    /\ Gated(realVersion, query[1])
    /\ query[1].field.kind = "object"
    /\ \E i \in 1..Len(query[1].field.fields) :
          Gated(realVersion, query[1].field.fields[i])
    /\ Len(prepared.defaults) = 1

\* C16 (as claimed): in every path recorded in defaults, the leaf is the
\* excluded version predicate and no other step is a version predicate, so
\* applyDefaults writes, at the key of that predicate, the default of that
\* predicate.
C16_PredicateOnlyAtLeaf ==
    /\ pc \in {"prepared", "applied"} =>
          \A k \in 1..Len(prepared.defaults) :
              LET path == prepared.defaults[k].path
              IN  /\ path[1].kind = "versionPredicate"
                  /\ \A i \in 2..Len(path) : path[i].kind # "versionPredicate"
    /\ pc = "applied" =>
          \A k \in 1..Len(prepared.defaults) :
              Written(response.val, Location(TopDown(prepared.defaults[k].path), 1),
                      prepared.defaults[k].value, elems)

\* C16, what holds: the leaf of every recorded path is a version predicate
\* excluded under realVersion, and every other version predicate of the path
\* is one that passed.
C16_LeafExcludedOthersPassed ==
    pc \in {"prepared", "applied"} =>
        \A k \in 1..Len(prepared.defaults) :
            LET path == prepared.defaults[k].path
            IN  /\ Gated(realVersion, path[1])
                /\ \A i \in 2..Len(path) : ~Gated(realVersion, path[i])

\* the setters whose path holds a Value step
WithValueStep(defaults) ==
    {k \in 1..Len(defaults) :
        \E i \in 1..Len(defaults[k].path) : defaults[k].path[i].kind = "value"}

\* the walk along the steps (top-down) comes to their first Value step: no
\* step before it is a version predicate or an array without elements
ValueStepReached(steps, n) ==
    \E i \in 1..Len(steps) :
        /\ steps[i].kind = "value"
        /\ \A h \in 1..(i - 1) :
              /\ steps[h].kind \notin {"value", "versionPredicate"}
              /\ steps[h].kind = "array" => n > 0

\* C17 (as claimed): no path recorded by prepare holds a Value step; and
\* when a path does hold a Value step before its last step, applyDefaults
\* throws and that setter writes nothing: the response is as the setters
\* before it left it.
C17_ValueStepFails ==
    /\ pc = "prepared" => WithValueStep(prepared.defaults) = {}
    /\ pc = "applied" =>
          \A k \in WithValueStep(prepared.defaults) :
              /\ response.threw
              /\ response.val = InListOrder(received, prepared.defaults, k - 1).val

\* C17 (amended): no path recorded by prepare holds a Value step; when the
\* walk along an edited path comes to a Value step, applyDefaults throws and
\* that setter writes nothing; when the walk ends before it, at a version
\* predicate step or at an array without elements, applyDefaults returns
\* normally.
C17_ReachedValueStepFails ==
    /\ pc = "prepared" => WithValueStep(prepared.defaults) = {}
    /\ pc = "applied" =>
          \A k \in WithValueStep(prepared.defaults) :
              IF ValueStepReached(TopDown(prepared.defaults[k].path), elems)
              THEN /\ response.threw
                   /\ response.val = InListOrder(received, prepared.defaults, k - 1).val
              ELSE ~response.threw

C17_Witness ==
    /\ pc = "applied"
    /\ response.threw
    /\ elems = 2
    /\ \E k \in WithValueStep(prepared.defaults) :
          /\ k = 2
          /\ response.val # received
          /\ prepared.defaults[k].path[2].kind = "value"

RECURSIVE OutsideArgs(_, _)
\* the tokens that are not part of a parenthesized list
OutsideArgs(tokens, inArgs) ==
    IF tokens = <<>> THEN <<>>
    ELSE LET t == Head(tokens) IN
         IF t = "(" THEN OutsideArgs(Tail(tokens), TRUE)
         ELSE IF t = ")" THEN OutsideArgs(Tail(tokens), FALSE)
         ELSE (IF inArgs THEN <<>> ELSE <<t>>) \o OutsideArgs(Tail(tokens), inArgs)

\* the field names among tokens without argument lists: neither punctuation
\* nor a label (a token followed by ':')
FieldNameTokens(tokens) ==
    SelectSeq([i \in 1..Len(tokens) |->
                  IF tokens[i] \in Punctuation THEN ","
                  ELSE IF i < Len(tokens) /\ tokens[i + 1] = ":" THEN ","
                  ELSE tokens[i]],
              LAMBDA t : t # ",")

RECURSIVE RealizedNames(_, _)
RECURSIVE RealizedNamesList(_, _)
\* the names of the value, object and array nodes that are not inside an
\* excluded predicate, in pre-order
RealizedNames(f, version) ==
    CASE f.kind = "value" -> <<f.name>>
      [] f.kind \in {"object", "array"} -> <<f.name>> \o RealizedNamesList(f.fields, version)
      [] f.kind = "versionPredicate" /\ Gated(version, f) -> <<>>
      [] OTHER -> RealizedNames(f.field, version)

RealizedNamesList(fields, version) ==
    IF fields = <<>> THEN <<>>
    ELSE RealizedNames(Head(fields), version) \o RealizedNamesList(Tail(fields), version)

\* C18: name emission. Outside the argument lists and apart from labels, the
\* names in the token buffer are exactly the names of the realized value,
\* object and array nodes, each once and in pre-order: a node wrapped by args
\* has its name before the argument list and not again after it, and the
\* children of an object wrapped by args have theirs.
C18_NamesOnce ==
    pc = "prepared" =>
        /\ ~prepared.threw
        /\ FieldNameTokens(OutsideArgs(PreparedBuffer(realVersion, query), FALSE))
              = <<"query">> \o RealizedNamesList(query, realVersion)

C18_Witness ==
    /\ pc = "prepared"
    /\ Len(query) = 1
    /\ query[1].kind = "args"
    /\ query[1].field.kind = "object"
    /\ Len(query[1].field.fields) = 1
    /\ prepared.text # Null

\* the argument names of the argument lists of the specifications
ArgNames == {"a", "b", "a1"}

\* the '$' variables a text over ArgNames can hold
Variables == {"$" \o n \o ToString(k) : n \in ArgNames, k \in 0..(2 * MaxArgs)}

RECURSIVE ArgValues(_, _)
\* the argument values of a body: the tokens after a ':' within a parenthesized list
ArgValues(tokens, inArgs) ==
    IF Len(tokens) < 2 THEN <<>>
    ELSE LET t == Head(tokens) IN
         IF t = "(" THEN ArgValues(Tail(tokens), TRUE)
         ELSE IF t = ")" THEN ArgValues(Tail(tokens), FALSE)
         ELSE IF inArgs /\ t = ":" THEN <<tokens[2]>> \o ArgValues(Tail(Tail(tokens)), TRUE)
         ELSE ArgValues(Tail(tokens), inArgs)

\* how many times x occurs in a sequence
Occurrences(seq, x) == Cardinality({i \in 1..Len(seq) : seq[i] = x})

RECURSIVE DeclarationText(_)
\* name ':' type ',' for each entry of a formals list, as one string
DeclarationText(formals) ==
    IF formals = <<>> THEN ""
    ELSE Head(formals).name \o ":" \o Head(formals).gqlType \o "," \o
         DeclarationText(Tail(formals))

RECURSIVE RealizedFormals(_, _)
RECURSIVE RealizedFormalsList(_, _)
\* the formal arguments of the args nodes outside excluded predicates, in pre-order
RealizedFormals(f, version) ==
    CASE f.kind = "value" -> <<>>
      [] f.kind \in {"object", "array"} -> RealizedFormalsList(f.fields, version)
      [] f.kind = "versionPredicate" /\ Gated(version, f) -> <<>>
      [] f.kind = "args" ->
            SelectSeq(f.args, LAMBDA arg : arg.kind = "formal") \o
            RealizedFormals(f.field, version)
      [] OTHER -> RealizedFormals(f.field, version)

RealizedFormalsList(fields, version) ==
    IF fields = <<>> THEN <<>>
    ELSE RealizedFormals(Head(fields), version) \o RealizedFormalsList(Tail(fields), version)

\* the text is the declarations of the returned formals around the body, and
\* the formals are the realized formal arguments, constants adding none
DeclaresFormals ==
    LET body == SerializeTopLevel(realVersion, FreshState, query).buffer
        own == RealizedFormalsList(query, realVersion)
    IN  /\ prepared.text # Null =>
              prepared.text = Str("query(" \o DeclarationText(prepared.formals) \o
                                  "){" \o Join(body) \o "}")
        /\ Len(prepared.formals) = Len(own)
        /\ \A i \in 1..Len(own) : prepared.formals[i].gqlType = own[i].gqlType

\* every declared name is used once in the body and every variable used is declared
UsesMatch ==
    LET uses == ArgValues(SerializeTopLevel(realVersion, FreshState, query).buffer, FALSE)
    IN  /\ \A i \in 1..Len(prepared.formals) :
              Occurrences(uses, prepared.formals[i].name) = 1
        /\ \A j \in 1..Len(uses) :
              uses[j] \in Variables =>
                  \E i \in 1..Len(prepared.formals) : prepared.formals[i].name = uses[j]

\* C19 (as claimed): formal declarations match uses. The text is 'query('
\* followed by name ':' type ',' for each returned formal, '){' body '}'; every
\* declared name occurs exactly once in the body as an argument value, no
\* undeclared variable occurs in the body, and constants add no formal.
C19_FormalsMatchUses ==
    pc = "prepared" => DeclaresFormals /\ UsesMatch

\* C19, where it holds: declarations match uses whenever the renamed names are
\* pairwise distinct.
C19_FormalsMatchUsesWhenDistinct ==
    (pc = "prepared" /\ C4_GensymUnique) => DeclaresFormals /\ UsesMatch

RECURSIVE OwnName(_)
\* the own name of the value, object or array a chain of wrappers ends in
OwnName(f) ==
    IF f.kind \in {"value", "object", "array"} THEN f.name ELSE OwnName(f.field)

\* the key of an excluded field: its label if it is labeled, else its own name
WrittenKey(predicate) ==
    IF predicate.field.kind = "labeled" THEN predicate.field.name
    ELSE OwnName(predicate.field)

RECURSIVE NavigationKeys(_, _)
\* The keys by which a response is descended along the steps of a setter,
\* top-down: none for an args step, the label for a labeled step, none for the
\* object or array that follows a labeled step, its own name for an unlabeled
\* object or array, and at last the key of the excluded field. Each key comes
\* with whether the value it leads to is an array, descended element by element.
NavigationKeys(steps, afterLabel) ==
    IF steps = <<>> THEN <<>>
    ELSE LET step == Head(steps)
             rest == Tail(steps) IN
         CASE step.kind = "args" -> NavigationKeys(rest, afterLabel)
           [] step.kind = "labeled" ->
                <<[key |-> step.name, isArray |-> CoreKind(step) = "array"]>>
                    \o NavigationKeys(rest, TRUE)
           [] step.kind \in {"object", "array"} ->
                (IF afterLabel THEN <<>>
                 ELSE <<[key |-> step.name, isArray |-> step.kind = "array"]>>)
                    \o NavigationKeys(rest, FALSE)
           [] step.kind = "versionPredicate" ->
                IF rest = <<>> THEN <<[key |-> WrittenKey(step), isArray |-> FALSE]>>
                ELSE NavigationKeys(rest, afterLabel)
           [] OTHER -> <<>>

RECURSIVE PutAt(_, _, _)
\* val with value at the location loc, in every element of each array on the way
PutAt(val, loc, value) ==
    IF loc = <<>> \/ val.t \notin {"obj", "arr"} THEN val
    ELSE IF Len(loc) = 1 THEN Put(val, loc[1].key, value)
    ELSE LET child == Get(val, loc[1].key) IN
         IF child.t = "undefined" THEN val
         ELSE IF loc[1].isArray /\ child.t = "arr"
              THEN Put(val, loc[1].key,
                       [child EXCEPT !.e = [i \in 1..Len(child.e) |->
                                               PutAt(child.e[i], Tail(loc), value)]])
              ELSE Put(val, loc[1].key, PutAt(child, Tail(loc), value))

RECURSIVE PutAll(_, _)
\* every default written at the navigation keys of its path, in list order
PutAll(val, defaults) ==
    IF defaults = <<>> THEN val
    ELSE PutAll(PutAt(val, NavigationKeys(TopDown(Head(defaults).path), FALSE),
                      Head(defaults).value),
                Tail(defaults))

\* C20 (as claimed): backfill navigation keys. applyDefaults returns normally
\* and changes the response exactly by writing each default at the end of the
\* descent its path prescribes: no descent for an args step, one descent by
\* the label for a labeled step and none for the object or array that follows
\* it (directly or after an args step), one descent by its own name for an
\* unlabeled object or array, and the write at the label of the excluded
\* field if it is labeled and at the own name of the wrapped field otherwise.
C20_NavigationKeys ==
    pc = "applied" =>
        /\ ~response.threw
        /\ response.val = PutAll(received, prepared.defaults)

\* C20, where it holds: the navigation keys for trees in which no excluded
\* predicate lies inside a passing one.
C20_NavigationKeysWithoutPassingStep ==
    (pc = "applied" /\ NoPassingStep) =>
        /\ ~response.threw
        /\ response.val = PutAll(received, prepared.defaults)

\* steps i, i+1, i+2 are the version predicate, the label and the object of a
\* version-predicated labeled object field
PredicatedLabeledObject(steps, i) ==
    /\ i + 2 <= Len(steps)
    /\ steps[i].kind = "versionPredicate"
    /\ steps[i + 1].kind = "labeled"
    /\ steps[i + 2].kind = "object"
    /\ steps[i].field = steps[i + 1]
    /\ steps[i + 1].field = steps[i + 2]

\* the names pathToPropertyNames has pushed after the first n steps
NamesAfter(steps, n) == PropertyNames(<<>>, FALSE, SubSeq(steps, 1, n))

\* C21 (as claimed): in the path of every recorded default, the three
\* consecutive steps version predicate, label, object of a version-predicated
\* labeled object field contribute exactly one property name to the result of
\* pathToPropertyNames, the label.
C21_OneNameForThreeSteps ==
    pc = "prepared" =>
        \A k \in 1..Len(prepared.defaults) :
            LET steps == pathEntriesTopDown(prepared.defaults[k].path) IN
            \A i \in 1..Len(steps) :
                PredicatedLabeledObject(steps, i) =>
                    NamesAfter(steps, i + 2)
                        = Append(NamesAfter(steps, i - 1), steps[i + 1].name)

\* a step in which prepare is called
PrepareStep ==
    <<pc, realVersion, prepared, calls>>' # <<pc, realVersion, prepared, calls>>

\* C22: serialization never modifies a tree. In every step that calls
\* prepare, with any version and after any earlier calls, the tree passed is
\* node for node the tree left (each formal keeps its un-renamed name, the
\* renamed ones are copies), collectFormalList gives the same list before and
\* after, and the tree of the first call, prepared again, is left as it was.
C22_TreesUnmodified ==
    [][PrepareStep =>
          /\ query' = query
          /\ prepared'.query = (IF pc' = "recalled" THEN calls[1].result.query ELSE query)
          /\ collectFormalList(query') = collectFormalList(query)]_vars

C22_Witness ==
    /\ pc = "recalled"
    /\ Len(prepared.formals) > 1
    /\ query # calls[1].result.query
    /\ collectFormalList(prepared.query) # prepared.formals

\* the formals declared are those of the collector, in order: the i-th has the
\* type of the i-th collected formal and its name between '$' and the counter
AgreesWithCollector(formals, collector) ==
    /\ Len(formals) = Len(collector)
    /\ \A i \in 1..Len(collector) :
          /\ formals[i].gqlType = collector[i].gqlType
          /\ formals[i].name = "$" \o collector[i].name \o ToString(i - 1)

\* C23 (as claimed): the formals of a prepared query agree with the collector.
\* For every tree and version the formals of prepare, without the gensym
\* suffix, are collectFormalList of the tree in order and length.
C23_FormalsAgreeWithCollector ==
    pc = "prepared" => AgreesWithCollector(prepared.formals, collectFormalList(query))

\* C23, where it holds: the formals agree with the collector when no version
\* predicate of the tree is excluded.
C23_FormalsAgreeWhenNothingExcluded ==
    (pc = "prepared" /\ prepared.defaults = <<>>) =>
        AgreesWithCollector(prepared.formals, collectFormalList(query))

RECURSIVE PutAtNames(_, _, _)
\* val with value written at the end of the property names, an array on the
\* way being descended element by element
PutAtNames(val, names, value) ==
    IF names = <<>> \/ val.t \notin {"obj", "arr"} THEN val
    ELSE IF Len(names) = 1 THEN Put(val, names[1], value)
    ELSE LET child == Get(val, names[1]) IN
         CASE child.t = "arr" ->
                Put(val, names[1],
                    [child EXCEPT !.e = [i \in 1..Len(child.e) |->
                                            PutAtNames(child.e[i], Tail(names), value)]])
           [] child.t = "obj" -> Put(val, names[1], PutAtNames(child, Tail(names), value))
           [] OTHER -> val

RECURSIVE PutAllNames(_, _)
\* every default written at the property names of its path, in list order
PutAllNames(val, defaults) ==
    IF defaults = <<>> THEN val
    ELSE PutAllNames(PutAtNames(val, pathToPropertyNames(Head(defaults).path),
                                Head(defaults).value),
                     Tail(defaults))

\* C24 (as claimed): path flattening and backfill agree. For every recorded
\* default the property names pathToPropertyNames returns are the response
\* keys applyDefault navigates and finally writes, arrays element by element:
\* applyDefaults returns normally and changes the response exactly by writing
\* each default at the end of the property names of its path.
C24_FlatteningAgreesWithBackfill ==
    pc = "applied" =>
        /\ ~response.threw
        /\ response.val = PutAllNames(received, prepared.defaults)

\* C24, where it holds: flattening and backfill agree for trees in which no
\* excluded predicate lies inside a passing one.
C24_FlatteningAgreesWithoutPassingStep ==
    (pc = "applied" /\ NoPassingStep) =>
        /\ ~response.threw
        /\ response.val = PutAllNames(received, prepared.defaults)

\* C25: serialization commutes with pruning. When prepare returns normally,
\* its text and its formals are the text and the formals of prepare, for the
\* same version, on the tree without its excluded predicates and with every
\* passing predicate replaced by the field it wraps, and prepare on that tree
\* returns normally with an empty defaults list.
C25_CommutesWithPruning ==
    (pc = "prepared" /\ ~prepared.threw) =>
        LET pruned == prepare(realVersion, PruneList(query, realVersion))
        IN  /\ ~pruned.threw
            /\ prepared.text = pruned.text
            /\ prepared.formals = pruned.formals
            /\ pruned.defaults = <<>>

C25_Witness ==
    /\ pc = "prepared"
    /\ ~prepared.threw
    /\ Len(query) = 2
    /\ Gated(realVersion, query[1])
    /\ query[2].kind = "args"
    /\ prepared.text # Null
    /\ Len(prepared.defaults) = 1

\* version a is at most version b, by an independent numeric comparison
AtMost(a, b) ==
    a[1] * 10000 + a[2] * 100 + a[3] <= b[1] * 10000 + b[2] * 100 + b[3]

RECURSIVE IsSubsequence(_, _)
\* a is b with some of its entries left out
IsSubsequence(a, b) ==
    IF a = <<>> THEN TRUE
    ELSE IF b = <<>> THEN FALSE
    ELSE IF Head(a) = Head(b) THEN IsSubsequence(Tail(a), Tail(b))
    ELSE IsSubsequence(a, Tail(b))

\* the argument names of the argument lists of ArgLists
BaseNames == {"a", "b"}

\* a renamed formal without its gensym suffix: its base name and its type
Unsuffixed(formal) ==
    [name |-> CHOOSE n \in BaseNames :
                  \E k \in 0..(2 * MaxArgs) : formal.name = "$" \o n \o ToString(k),
     gqlType |-> formal.gqlType]

UnsuffixedList(formals) == [i \in 1..Len(formals) |-> Unsuffixed(formals[i])]

\* the names of the fields emitted into the text for a version
EmittedFields(version, fields) ==
    Tail(FieldNameTokens(OutsideArgs(PreparedBuffer(version, fields), FALSE)))

\* C26: version monotonicity. For the version V1 a tree was prepared for and
\* every version V2 with V1 <= V2, the fields emitted for V1 are emitted for
\* V2 (as a subsequence), the formals for V1 without their gensym suffixes
\* are a subsequence of those for V2, and if the text for V2 is null then the
\* text for V1 is null.
C26_VersionMonotonicity ==
    (pc = "prepared" /\ realVersion # EmptyVersion) =>
        \A V2 \in RealVersions \ {EmptyVersion} :
            AtMost(realVersion, V2) =>
                LET later == prepare(V2, query)
                IN  /\ IsSubsequence(EmittedFields(realVersion, query),
                                      EmittedFields(V2, query))
                    /\ IsSubsequence(UnsuffixedList(prepared.formals),
                                      UnsuffixedList(later.formals))
                    /\ later.text = Null => prepared.text = Null

C26_Witness ==
    /\ pc = "prepared"
    /\ realVersion = V190
    /\ Len(query) = 1
    /\ prepared.text = Null
    /\ prepare(V1100, query).text # Null
    /\ Len(prepare(V1100, query).formals) > Len(prepared.formals)

RECURSIVE AllFieldNames(_)
RECURSIVE AllFieldNamesList(_)
\* the names of all value, object and array nodes of a tree, in pre-order
AllFieldNames(f) ==
    CASE f.kind = "value" -> <<f.name>>
      [] f.kind \in {"object", "array"} -> <<f.name>> \o AllFieldNamesList(f.fields)
      [] OTHER -> AllFieldNames(f.field)

AllFieldNamesList(fields) ==
    IF fields = <<>> THEN <<>>
    ELSE AllFieldNames(Head(fields)) \o AllFieldNamesList(Tail(fields))

RECURSIVE HasPredicate(_)
\* some node of the tree is a version predicate
HasPredicate(f) ==
    CASE f.kind = "value" -> FALSE
      [] f.kind \in {"object", "array"} ->
            \E i \in 1..Len(f.fields) : HasPredicate(f.fields[i])
      [] f.kind = "versionPredicate" -> TRUE
      [] OTHER -> HasPredicate(f.field)

\* a version at least as new as every predicate of a tree
Newest == V200

\* C27: with the empty string for realVersion version gating is disabled.
\* prepare returns normally with an empty defaults list, every field of the
\* tree is emitted whatever the minimum versions of the predicates around it,
\* and the text and the formals are those obtained for a version at least as
\* new as every predicate of the tree.
C27_EmptyVersionDisablesGating ==
    (pc = "prepared" /\ realVersion = EmptyVersion) =>
        /\ ~prepared.threw
        /\ prepared.defaults = <<>>
        /\ EmittedFields(EmptyVersion, query) = AllFieldNamesList(query)
        /\ prepared.text = prepare(Newest, query).text
        /\ prepared.formals = prepare(Newest, query).formals

C27_Witness ==
    /\ pc = "prepared"
    /\ realVersion = EmptyVersion
    /\ Len(query) = 1
    /\ query[1].kind = "versionPredicate"
    /\ query[1].version = V200
    /\ HasPredicate(query[1].field)
    /\ prepared.text # Null

RECURSIVE WellTyped(_)
\* the tree respects the type parameters of the constructors: args wraps a
\* value, object or array, labeled wraps one of these or an args node, and a
\* version predicate wraps any field
WellTyped(f) ==
    CASE f.kind = "value" -> TRUE
      [] f.kind \in {"object", "array"} -> \A i \in 1..Len(f.fields) : WellTyped(f.fields[i])
      [] f.kind = "args" -> f.field.kind \in {"value", "object", "array"} /\ WellTyped(f.field)
      [] f.kind = "labeled" ->
            f.field.kind \in {"value", "object", "array", "args"} /\ WellTyped(f.field)
      [] f.kind = "versionPredicate" -> WellTyped(f.field)
      [] OTHER -> FALSE

\* C28: for every tree that respects the type constraints of the constructors
\* and every version, prepare returns normally: neither assertion of
\* serializeField fails and its 'unreachable' default case is not reached.
C28_WellTypedNeverThrows ==
    (pc = "prepared" /\ \A i \in 1..Len(query) : WellTyped(query[i])) =>
        ~prepared.threw

C28_Witness ==
    /\ pc = "prepared"
    /\ Len(query) = 1
    /\ WellTyped(query[1])
    /\ query[1].kind = "args"
    /\ query[1].field.kind = "object"
    /\ Len(query[1].field.fields) = 1
    /\ Gated(realVersion, query[1].field.fields[1])
    /\ ~prepared.threw

RECURSIVE DeltaTexts(_)
\* the deltaText arguments of the calls, in call order, undefined being empty
DeltaTexts(chunks) ==
    IF chunks = <<>> THEN ""
    ELSE DeltaTexts(SubSeq(chunks, 1, Len(chunks) - 1)) \o
         (IF chunks[Len(chunks)].deltaText = Undefined THEN ""
          ELSE chunks[Len(chunks)].deltaText.s)

\* the completion argument of the most recent call, undefined being empty
LastCompletion(chunks) ==
    IF chunks[Len(chunks)].completion = Undefined THEN ""
    ELSE chunks[Len(chunks)].completion.s

\* C29: CompletionsResponseBuilder.nextCompletion. For apiVersion >= 2,
\* after any sequence of calls totalCompletion, and the value the last call
\* returned, is the concatenation in call order of the deltaText arguments
\* received so far, whatever the completion arguments; for apiVersion <= 1 it
\* is the completion argument of the most recent call, whatever the earlier
\* calls and the deltaText arguments.
C29_NextCompletion ==
    builder.constructed =>
        /\ builder.returned = builder.totalCompletion
        /\ builder.apiVersion >= 2 =>
              builder.totalCompletion = DeltaTexts(builder.chunks)
        /\ (builder.apiVersion <= 1 /\ builder.chunks # <<>>) =>
              builder.totalCompletion = LastCompletion(builder.chunks)

C29_Witness ==
    /\ builder.constructed
    /\ builder.apiVersion = 2
    /\ Len(builder.chunks) = 3
    /\ builder.chunks[2].deltaText = Undefined
    /\ builder.chunks[3].completion = StringValue("b")
    /\ builder.totalCompletion = "ab"

\* C30 (as claimed): ExperimentalToolHandler.handle terminates. For a
\* non-empty input, in every execution, also when an operation of the loop
\* body throws on every iteration, the loop is left after at most
\* maxTurns + 1 iterations and delegate.postDone() is called exactly once.
C30_HandleTerminates ==
    /\ [](handler.pc \in Running => handler.iterations <= maxTurns + 1)
    /\ [](handler.pc = "done" => handler.postDone = 1)
    /\ (handler.pc = "loop") ~> (handler.pc = "done")

\* C30, the part of it that holds: once left, the loop was left by the break
\* after a stream that ended without a tool call, with postDone called once.
C30_PostDoneOnce ==
    handler.pc = "done" => handler.postDone = 1 /\ handler.turns = 0

====
